---------------------------- MODULE Spec2Model ----------------------------
(***************************************************************************)
(* Dual round-display animated eye (intellar/Dual_Display_ESP32).          *)
(*                                                                         *)
(* The model covers the perception-to-render pipeline of the firmware:     *)
(*   - the VL53L5CX 8x8 target detector (firmware/src/tof_sensor.cpp),     *)
(*   - the gaze controller            (firmware/src/eye_logic.cpp),        *)
(*   - the scanline compositor        (drawing_tools.cpp).                 *)
(*                                                                         *)
(* float values (normalized coordinates, eye positions) are held as        *)
(* integers in units of 1/FScale, every float operation rounding its exact *)
(* result to the nearest unit.                                             *)
(***************************************************************************)
EXTENDS Integers, Sequences, FiniteSets, TLC

VARIABLES
    measurementData,   \* tof_sensor.cpp: static VL53L5CX_ResultsData (64 zones)
    current_target,    \* tof_sensor.cpp: static TofTarget
    sensor_event,      \* what the last update_tof_sensor_data call did
    now,               \* the value millis() returns
    eye_positions,     \* eye_logic.cpp: static EyePosition eye_positions[NUM_SCREEN]
    last_saccade_time, \* eye_logic.cpp statics
    saccade_target_x,
    saccade_target_y,
    last_track_time,
    last_known_target_x,
    last_known_target_y,
    framebuffers,        \* drawing_tools.cpp: uint16_t* framebuffers[NUM_SCREEN]
    active_screen_index, \* drawing_tools.cpp: static int8_t
    circular_scanlines,  \* drawing_tools.cpp: Scanline circular_scanlines[SCR_HT]
    eye_texture,         \* drawing_tools.cpp: EyeTexture (one buffer per image type)
    arg_eyelid_level,    \* eyelid_level the caller passes to draw_eye_at_target
    arg_image_type,      \* image_type the caller passes to draw_eye_at_target
    last_draw,           \* what the last call that writes a framebuffer did
    chip_select,         \* level of each display's CS pin (screens[i].CS)
    panels,              \* what each physical display last received
    pc,                  \* where the main thread is: setup steps, loop, halted
    serial_log           \* diagnostics printed on Serial

tofVars == <<measurementData, current_target, sensor_event>>

gazeVars == <<now, eye_positions, last_saccade_time, saccade_target_x,
              saccade_target_y, last_track_time, last_known_target_x,
              last_known_target_y>>

drawVars == <<framebuffers, active_screen_index, circular_scanlines,
              eye_texture, arg_eyelid_level, arg_image_type, last_draw,
              chip_select, panels>>

bootVars == <<pc, serial_log>>

vars == <<tofVars, gazeVars, drawVars, bootVars>>

-----------------------------------------------------------------------------
(* Numeric helpers                                                         *)

Abs(v) == IF v < 0 THEN -v ELSE v

Min2(a, b) == IF a < b THEN a ELSE b

Max2(a, b) == IF a > b THEN a ELSE b

\* n / d rounded to the nearest integer (d > 0), ties away from -infinity.
RoundDiv(n, d) == (2 * n + d) \div (2 * d)

\* n / d truncated toward zero (d > 0): a C float-to-integer conversion.
TruncDiv(n, d) == IF n >= 0 THEN n \div d ELSE -((-n) \div d)

-----------------------------------------------------------------------------
(* Bounds of the model                                                     *)

\* Units per 1.0 of a modelled float.
FScale == 1000

\* millis() stays at or below this value in the gaze-timing specification.
MaxTime == 4800

\* millis() stays at or below this value in the smoothing specification.
MaxLerpTime == 640

\* The sensor delivers its last frame before this time in the smoothing
\* specification: from then on the goal is held fixed.
LerpPollUntil == 45

\* millis() stays below this value in the loop specification.
MaxLoopTime == 45

-----------------------------------------------------------------------------
(* Program constants                                                       *)

GRID == 8                 \* 8x8 zones: the loops "r < 8", "c < 8"
STATUS_VALID == 5         \* target_status value of a valid measurement
MAX_DIST_TOF == 400
MIN_RELIABLE_PIXELS_IN_WINDOW == 4

Zones == 0 .. (GRID * GRID - 1)

NUM_SCREEN == 2
SACCADE_DELAY_AFTER_TRACK_MS == 2000
SACCADE_INTERVAL_MS == 1500
LERP_SPEED_NUM == 1       \* LERP_SPEED = 0.2 = LERP_SPEED_NUM / LERP_SPEED_DEN
LERP_SPEED_DEN == 5
RANDOM_LO == -100         \* random(-100, 101): RANDOM_LO .. RANDOM_HI
RANDOM_HI == 100

-----------------------------------------------------------------------------
(* Target detector: firmware/src/tof_sensor.cpp                            *)

\* One zone of VL53L5CX_ResultsData: distance_mm[i] and target_status[i].
Zone(d, st) == [distance_mm |-> d, target_status |-> st]

\* static TofTarget current_target = {0, 0, 0, false, -1, -1, 0};
InitialTarget ==
    [x |-> 0, y |-> 0, distance_mm |-> 0, is_valid |-> FALSE,
     min_dist_pixel_x |-> -1, min_dist_pixel_y |-> -1, match_score |-> 0]

\* Mutant of Reliable: the status of the zone is not looked at.
ReliableAnyStatus(data, i) == data[i].distance_mm < MAX_DIST_TOF

\* The test both loops apply to a zone: status == 5 && distance < MAX_DIST_TOF.
Reliable(data, i) ==
    /\ data[i].target_status = STATUS_VALID
    /\ data[i].distance_mm < MAX_DIST_TOF

\* The 3x3 window loops (dy, dx in -1..1) from offset number k on:
\* distance_sum and reliable_pixel_count over the in-grid reliable neighbours.
RECURSIVE WindowAcc(_, _, _, _)
WindowAcc(data, r, c, k) ==
    IF k = 9 THEN [sum |-> 0, count |-> 0]
    ELSE LET dy == (k \div 3) - 1
             dx == (k % 3) - 1
             nx == c + dx
             ny == r + dy
             rest == WindowAcc(data, r, c, k + 1)
         IN  IF /\ nx >= 0 /\ nx < GRID /\ ny >= 0 /\ ny < GRID
                /\ Reliable(data, ny * GRID + nx)
             THEN [sum |-> rest.sum + data[ny * GRID + nx].distance_mm,
                   count |-> rest.count + 1]
             ELSE rest

\* best_avg_dist = FLT_MAX, best_target_index = -1
NoBest == [idx |-> -1, sum |-> 0, count |-> 1]

\* Mutant of AvgLess: a window of equal average replaces the best one.
AvgLessOrEqual(w, best) ==
    IF best.idx = -1 THEN TRUE
    ELSE w.sum * best.count <= best.sum * w.count

\* avg_dist < best_avg_dist, avg_dist = (float)distance_sum / count.  Two
\* quotients of sums below 9 * MAX_DIST_TOF by counts of at most 9 differ by more
\* than a float rounding step when they differ at all, so the float
\* comparison is the comparison of the exact quotients; every such quotient
\* is below FLT_MAX.
AvgLess(w, best) ==
    IF best.idx = -1 THEN TRUE
    ELSE w.sum * best.count < best.sum * w.count

\* The inner loop "for c" of row r from column c on, carrying the best
\* window found so far.
RECURSIVE ScanRow(_, _, _, _)
ScanRow(data, r, c, best) ==
    IF c = GRID THEN best
    ELSE IF ~Reliable(data, r * GRID + c) THEN ScanRow(data, r, c + 1, best)
    ELSE LET w == WindowAcc(data, r, c, 0)
         IN  IF w.count >= MIN_RELIABLE_PIXELS_IN_WINDOW /\ AvgLess(w, best)
             THEN ScanRow(data, r, c + 1,
                          [idx |-> r * GRID + c, sum |-> w.sum,
                           count |-> w.count])
             ELSE ScanRow(data, r, c + 1, best)

\* The outer loop "for r" from row r on.  (The test on row_best.idx, an
\* index of the grid or -1, is always true: it makes the row's result be
\* computed before the next row starts.)
RECURSIVE ScanZones(_, _, _)
ScanZones(data, r, best) ==
    IF r = GRID THEN best
    ELSE LET row_best == ScanRow(data, r, 0, best)
         IN  IF row_best.idx < GRID * GRID
             THEN ScanZones(data, r + 1, row_best)
             ELSE row_best

\* (static_cast<float>(pixel) - 3.5f) / 3.5f
NormCoord(pixel) == RoundDiv((2 * pixel - 7) * FScale, 7)

\* Mutant of FoundTarget: x taken from the column and y from the row.
FoundTargetUntransposed(data, best) ==
    [x |-> NormCoord(best.idx % GRID),
     y |-> NormCoord(best.idx \div GRID),
     distance_mm |-> data[best.idx].distance_mm,
     is_valid |-> TRUE,
     min_dist_pixel_x |-> best.idx % GRID,
     min_dist_pixel_y |-> best.idx \div GRID,
     match_score |-> TruncDiv(best.sum, best.count)]

\* The fields process_measurement_data writes when a window was found
\* (best_target_index != -1): every field of current_target.
FoundTarget(data, best) ==
    LET pixel_y == best.idx \div GRID
        pixel_x == best.idx % GRID
    IN  [x |-> NormCoord(pixel_y),
         y |-> NormCoord(pixel_x),
         distance_mm |-> data[best.idx].distance_mm,
         is_valid |-> TRUE,
         min_dist_pixel_x |-> pixel_x,
         min_dist_pixel_y |-> pixel_y,
         match_score |-> TruncDiv(best.sum, best.count)]

\* Mutant: no window found leaves the held Target as it is.
TargetUpdateKeepsHeld(data, held, best) ==
    IF best.idx # -1 THEN FoundTarget(data, best) ELSE held

\* Mutant: the reported distance is smoothed with the distance held before.
TargetUpdateSmoothed(data, held, best) ==
    IF best.idx # -1
    THEN [FoundTarget(data, best) EXCEPT
             !.distance_mm = (held.distance_mm + @) \div 2]
    ELSE [held EXCEPT !.is_valid = FALSE,
                      !.min_dist_pixel_x = -1,
                      !.min_dist_pixel_y = -1,
                      !.match_score = 0]

\* The state update that ends process_measurement_data.  With no window
\* found only is_valid, the grid coordinates and the score are written: x, y
\* and distance_mm keep what they held.
TargetUpdate(data, held, best) ==
    IF best.idx # -1
    THEN FoundTarget(data, best)
    ELSE [held EXCEPT !.is_valid = FALSE,
                      !.min_dist_pixel_x = -1,
                      !.min_dist_pixel_y = -1,
                      !.match_score = 0]

\* process_measurement_data: current_target after a run on `data`.
ProcessMeasurementData(data, held) ==
    TargetUpdate(data, held, ScanZones(data, 0, NoBest))

\* Mutant of TargetAfterPoll: a failed read drops the held Target.
TargetAfterPollExpiring(ready, ok, data, held) ==
    IF ready /\ ok THEN ProcessMeasurementData(data, held)
    ELSE IF ready THEN InitialTarget
    ELSE held

\* Mutant: a poll that delivers no frame reports "no target".
TargetAfterPollInvalidating(ready, ok, data, held) ==
    IF ready /\ ok THEN ProcessMeasurementData(data, held)
    ELSE [held EXCEPT !.is_valid = FALSE]

\* update_tof_sensor_data (TOF_CALIBRATION_MODE 0): the Target after a poll.
\* Detection runs only when isDataReady() and getRangingData() both succeed.
TargetAfterPoll(ready, ok, data, held) ==
    IF ready /\ ok THEN ProcessMeasurementData(data, held) ELSE held

\* What the measurement buffer may hold after a poll.  A poll that is not
\* ready never touches it; getRangingData(&measurementData) writes the frame
\* it read into it, and a read that fails may have written it or not.
BufferAfterPoll(ready, ok, buffer, frames) ==
    IF ~ready THEN {buffer}
    ELSE IF ok THEN frames
    ELSE frames \cup {buffer}

\* What a poll did.  "reprocessed" is a detection run on a buffer holding
\* what the previous detection run saw.
PollEvent(ready, ok, same, prev) ==
    IF ~ready THEN "not_ready"
    ELSE IF ~ok THEN "read_failed"
    ELSE IF same /\ prev \in {"processed", "reprocessed"} THEN "reprocessed"
    ELSE "processed"

-----------------------------------------------------------------------------
(* Gaze controller: firmware/src/eye_logic.cpp                             *)

Eyes == 0 .. (NUM_SCREEN - 1)

\* Mutant of SaccadeDue: the interval is compared the wrong way round.
SaccadeDueNever(valid, t1, t2, track_time, saccade_time) ==
    /\ ~valid
    /\ t1 - track_time > SACCADE_DELAY_AFTER_TRACK_MS
    /\ saccade_time - t2 > SACCADE_INTERVAL_MS

\* Mutant of SaccadeDue: a goal is drawn on every tick without a Target.
SaccadeDueAtOnce(valid, t1, t2, track_time, saccade_time) == ~valid

\* Mutant: the idle gate without the grace period after a lost track.
SaccadeDueNoGrace(valid, t1, t2, track_time, saccade_time) ==
    /\ ~valid
    /\ t2 - saccade_time > SACCADE_INTERVAL_MS

\* The idle gate of update_eye_positions: no valid target, and both timers
\* elapsed.  t1 and t2 are the values millis() returns at the two tests.
SaccadeDue(valid, t1, t2, track_time, saccade_time) ==
    /\ ~valid
    /\ t1 - track_time > SACCADE_DELAY_AFTER_TRACK_MS
    /\ t2 - saccade_time > SACCADE_INTERVAL_MS

\* random(-100, 101) / 100.0f
SaccadeCoord(r) == RoundDiv(r * FScale, 100)

\* Mutant of Lerp: a smoothing factor of 1.2, outside (0, 1].
LerpOvershoot(position, goal) ==
    position + RoundDiv((goal - position) * (LERP_SPEED_NUM + LERP_SPEED_DEN),
                        LERP_SPEED_DEN)

\* Mutant: the difference taken the other way round.
LerpAway(position, goal) ==
    position + RoundDiv((position - goal) * LERP_SPEED_NUM, LERP_SPEED_DEN)

\* position += (goal - position) * LERP_SPEED
Lerp(position, goal) ==
    position + RoundDiv((goal - position) * LERP_SPEED_NUM, LERP_SPEED_DEN)

\* Values random(-100, 101) returns in the model.
RandomValues == {RANDOM_LO, 37, RANDOM_HI}

\* The values three successive millis() calls of one update_eye_positions
\* run may return when the first returns t: the counter may step once
\* between two calls.
MillisReads(t) ==
    { <<t, t, t>>, <<t, t, t + 1>>, <<t, t + 1, t + 1>> }

\* The pairs of values the two random(-100, 101) calls return; none is
\* drawn when no saccade is due.
RandomDraws(due, randoms) ==
    IF due THEN randoms \X randoms ELSE {<<0, 0>>}

\* Mutant of LerpEyes: the loop stops after the left eye.
LerpEyesLeftOnly(positions, final_target_x, final_target_y) ==
    [i \in Eyes |->
        IF i = 0
        THEN [x |-> Lerp(positions[i].x, final_target_x),
              y |-> Lerp(positions[i].y, final_target_y)]
        ELSE positions[i]]

\* for (int i = 0; i < NUM_SCREEN; i++): each eye's position moved toward
\* the one final target.
LerpEyes(positions, final_target_x, final_target_y) ==
    [i \in Eyes |->
        [x |-> Lerp(positions[i].x, final_target_x),
         y |-> Lerp(positions[i].y, final_target_y)]]

\* Mutant of FinalTarget: the Target's coordinate is the goal, valid or not.
FinalTargetOfTarget(valid, target_coord, saccade_coord) == target_coord

\* final_target_x, final_target_y (TOF_CALIBRATION_MODE 0): the Target's
\* coordinate when the Target is valid, else the saccade target as the idle
\* branch leaves it.
FinalTarget(valid, target_coord, saccade_coord) ==
    IF valid THEN target_coord ELSE saccade_coord

\* update_eye_positions(target) (TOF_CALIBRATION_MODE 0), called when
\* millis() returns t at its first call; random() returns values of
\* `randoms`.
UpdateEyePositions(target, t, randoms) ==
    \E m \in MillisReads(t) :
        LET valid == target.is_valid
            due == SaccadeDue(valid, m[1], m[2], last_track_time,
                              last_saccade_time)
        IN  \E rnd \in RandomDraws(due, randoms) :
            LET saccade_x == IF due THEN SaccadeCoord(rnd[1])
                             ELSE saccade_target_x
                saccade_y == IF due THEN SaccadeCoord(rnd[2])
                             ELSE saccade_target_y
                final_target_x == FinalTarget(valid, target.x, saccade_x)
                final_target_y == FinalTarget(valid, target.y, saccade_y)
            IN  /\ last_track_time' =
                       IF valid THEN m[1] ELSE last_track_time
                /\ last_known_target_x' =
                       IF valid THEN target.x ELSE last_known_target_x
                /\ last_known_target_y' =
                       IF valid THEN target.y ELSE last_known_target_y
                /\ last_saccade_time' =
                       IF due THEN m[3] ELSE last_saccade_time
                /\ saccade_target_x' = saccade_x
                /\ saccade_target_y' = saccade_y
                /\ eye_positions' =
                       LerpEyes(eye_positions, final_target_x, final_target_y)
                /\ now' = m[3]

\* The gaze step of a loop iteration, run when millis() has advanced by one
\* of `steps` since the previous one and is still below `limit`.
EyeTick(steps, limit, randoms) ==
    \E dt \in steps :
      /\ now + dt < limit
      /\ UpdateEyePositions(current_target, now + dt, randoms)
      /\ UNCHANGED <<tofVars, drawVars, bootVars>>

\* Statics of eye_logic.cpp at start-up.
InitGaze ==
    /\ now = 0
    /\ eye_positions = [i \in Eyes |-> [x |-> 0, y |-> 0]]
    /\ last_saccade_time = 0
    /\ saccade_target_x = 0
    /\ saccade_target_y = 0
    /\ last_track_time = 0
    /\ last_known_target_x = 0
    /\ last_known_target_y = 0

-----------------------------------------------------------------------------
(* Scanline compositor: drawing_tools.cpp, config.h                        *)

SCR_WD == 240

SCR_HT == 240

EYE_IMAGE_WIDTH == 350

EYE_IMAGE_HEIGHT == 350

TRANSPARENT_COLOR_KEY == 0

MAX_2D_OFFSET_PIXELS == 55

\* (SCR_WD - EYE_IMAGE_WIDTH) / 2, an exact int division: -55.
RESTING_2D_OFFSET_PIXELS == -((EYE_IMAGE_WIDTH - SCR_WD) \div 2)

EYE_IMAGE_NORMAL == 0

EYE_IMAGE_BAD == 1

NUM_EYE_IMAGE_TYPES == 2

EyeImageTypes == {EYE_IMAGE_NORMAL, EYE_IMAGE_BAD}

TFT_BLACK == 0

\* uint32_t src_increment = 1 * 65536.
SRC_INCREMENT == 65536

\* eyelid_level / 128.0f: the fully closed level.
EYELID_CLOSED == 128

\* A value converted to int16_t.
ToInt16(v) == ((v + 32768) % 65536) - 32768

\* (int16_t) sqrt(n) of a non-negative int: the double square root is
\* correctly rounded and n < 2^15, so the truncation is the integer root.
ISqrt(n) == CHOOSE e \in 0..(SCR_WD \div 2) : e * e <= n /\ n < (e + 1) * (e + 1)

\* Mutant of Scanline: a row touching the circle in one point is drawable.
ScanlineInclusive(y) ==
    LET screen_center == SCR_WD \div 2
        radius_sq == screen_center * screen_center
        dist_y_sq == (y - screen_center) * (y - screen_center)
    IN  IF dist_y_sq <= radius_sq
        THEN [x_start |-> screen_center - ISqrt(radius_sq - dist_y_sq),
              x_end |-> screen_center + ISqrt(radius_sq - dist_y_sq)]
        ELSE [x_start |-> -1, x_end |-> -1]

\* Mutant of Scanline: the row reaches one pixel further right.
ScanlineWide(y) ==
    LET screen_center == SCR_WD \div 2
        radius_sq == screen_center * screen_center
        dist_y_sq == (y - screen_center) * (y - screen_center)
    IN  IF dist_y_sq < radius_sq
        THEN [x_start |-> screen_center - ISqrt(radius_sq - dist_y_sq),
              x_end |-> screen_center + ISqrt(radius_sq - dist_y_sq) + 1]
        ELSE [x_start |-> -1, x_end |-> -1]

\* One iteration of the loop of precalculate_scanlines.
Scanline(y) ==
    LET screen_center == SCR_WD \div 2
        radius_sq == screen_center * screen_center
        dist_y_sq == (y - screen_center) * (y - screen_center)
    IN  IF dist_y_sq < radius_sq
        THEN [x_start |-> screen_center - ISqrt(radius_sq - dist_y_sq),
              x_end |-> screen_center + ISqrt(radius_sq - dist_y_sq)]
        ELSE [x_start |-> -1, x_end |-> -1]

precalculate_scanlines == [y \in 0..(SCR_HT - 1) |-> Scanline(y)]

\* Mutant of swap_color_bytes: the colour is stored as it is.
swap_color_bytes_none(color) == color

\* (color << 8) | (color >> 8), returned as uint16_t.
swap_color_bytes(color) == ((color * 256) % 65536) + (color \div 256)

\* Mutant of EyelidCutoff: the band is half as high.
EyelidCutoffHalf(eyelid_level) ==
    ToInt16(TruncDiv(eyelid_level * EYE_IMAGE_HEIGHT, 4 * EYELID_CLOSED))

\* int16_t eyelid_y_cutoff = (eyelid_level / 128.0f) * (scaled_height / 2.0f).
\* Both factors and their product are exact in float (a division by a power
\* of two, 175, and a product of at most 16 significant bits), so the
\* conversion truncates the exact value eyelid_level * 350 / 256.
EyelidCutoff(eyelid_level) ==
    ToInt16(TruncDiv(eyelid_level * EYE_IMAGE_HEIGHT, 2 * EYELID_CLOSED))

\* The row test of draw_eye_image: off-screen or closed by the eyelid.
RowSkipped(y, dest_y, eyelid_y_cutoff) ==
    \/ dest_y < 0
    \/ dest_y >= SCR_HT
    \/ y < eyelid_y_cutoff
    \/ y >= EYE_IMAGE_HEIGHT - eyelid_y_cutoff

\* Iteration y of the row loop of draw_eye_image: whether the row is drawn,
\* and if so over which destination columns [x_start_draw, x_end_draw) and
\* from which texture row.  src_y_accum has been incremented once per
\* earlier row (it stays far below 2^32).
DrawRow(x_pos, y_pos, eyelid_y_cutoff, scanlines, y) ==
    LET dest_y == ToInt16(y_pos + y)
    IN  IF RowSkipped(y, dest_y, eyelid_y_cutoff)
        THEN [drawn |-> FALSE, y |-> y, dest_y |-> dest_y, src_y |-> 0,
              x_start_draw |-> 0, x_end_draw |-> 0]
        ELSE IF scanlines[dest_y].x_start = -1
        THEN [drawn |-> FALSE, y |-> y, dest_y |-> dest_y, src_y |-> 0,
              x_start_draw |-> 0, x_end_draw |-> 0]
        ELSE [drawn |-> TRUE, y |-> y, dest_y |-> dest_y,
              src_y |-> ToInt16((y * SRC_INCREMENT) \div 65536),
              x_start_draw |-> Max2(scanlines[dest_y].x_start, x_pos),
              x_end_draw |-> Min2(scanlines[dest_y].x_end,
                                  ToInt16(x_pos + EYE_IMAGE_WIDTH))]

\* The rows the loop of draw_eye_image draws.
DrawRows(x_pos, y_pos, eyelid_level, scanlines) ==
    LET cutoff == EyelidCutoff(eyelid_level)
    IN  {r \in {DrawRow(x_pos, y_pos, cutoff, scanlines, y) :
                   y \in 0..(EYE_IMAGE_HEIGHT - 1)} : r.drawn}

\* Contents an image file can have, as texel (src_x, src_y) of the buffer:
\* "iris" is a disc on a transparent ground with transparent dots in it,
\* "opaque" has no transparent texel, "blank" only transparent ones.  The
\* opaque colours differ from texel to texel and from their own byte swap.
TexturePatterns == {"iris", "opaque", "blank"}

EyeTexel(pattern, src_x, src_y) ==
    CASE pattern = "iris" ->
            IF (src_x - 175) * (src_x - 175) + (src_y - 175) * (src_y - 175)
                   > 170 * 170
               \/ (src_x + 2 * src_y) % 5 = 0
            THEN TRANSPARENT_COLOR_KEY
            ELSE ((src_x * 256 + src_y) % 65535) + 1
      [] pattern = "opaque" ->
            ((src_y * EYE_IMAGE_WIDTH + src_x) % 65535) + 1
      [] OTHER -> TRANSPARENT_COLOR_KEY

\* The framebuffer is followed on the pixel rows ProbeRows, every column of
\* them; a pixel is named by its index dest_y * SCR_WD + dest_x.
ProbeRows == {0, 1, 64, 120, 200, 239}

ProbeIndices ==
    {dest_y * SCR_WD + dest_x : dest_y \in ProbeRows, dest_x \in 0..(SCR_WD - 1)}

\* Memory a fresh ps_malloc can hold.
UninitializedFills == {"ones", "ramp"}

UninitializedBuffer(fill) ==
    [idx \in ProbeIndices |-> IF fill = "ones" THEN 65535 ELSE (idx * 7) % 65536]

\* Bits 16..31 of the uint32_t product n * src_increment, which is what
\* ">> 16" leaves of an accumulator holding n increments.
AccumHigh(n) ==
    (n * (SRC_INCREMENT \div 65536)
       + (n * (SRC_INCREMENT % 65536)) \div 65536) % 65536

\* Mutant of SourceX: the accumulator starts at 0 on every row.
SourceXFromZero(x_pos, x_start_draw, dest_x) ==
    ToInt16(AccumHigh(dest_x - x_start_draw))

\* int16_t src_x = src_x_accum >> 16 at column dest_x of a row: the uint32_t
\* accumulator starts at (x_start_draw - x_pos) * src_increment and has been
\* incremented by src_increment once per earlier column.
SourceX(x_pos, x_start_draw, dest_x) ==
    ToInt16(AccumHigh((x_start_draw - x_pos) + (dest_x - x_start_draw)))

\* The pixel of index idx after draw_eye_image: the row loop reaches its
\* destination row at y = dest_y - y_pos, the column loop reaches it when
\* x_start_draw <= dest_x < x_end_draw, with src_x_accum started at
\* (x_start_draw - x_pos) * src_increment and incremented once per column.
PixelAfterDraw(old, idx, x_pos, y_pos, eyelid_y_cutoff, scanlines, pattern) ==
    LET dest_y == idx \div SCR_WD
        dest_x == idx % SCR_WD
        y == dest_y - y_pos
    IN  IF y < 0 \/ y >= EYE_IMAGE_HEIGHT THEN old
        ELSE LET r == DrawRow(x_pos, y_pos, eyelid_y_cutoff, scanlines, y)
                 src_x == SourceX(x_pos, r.x_start_draw, dest_x)
                 source_color == EyeTexel(pattern, src_x, r.src_y)
             IN  IF ~r.drawn \/ dest_x < r.x_start_draw
                    \/ dest_x >= r.x_end_draw
                 THEN old
                 ELSE IF source_color = TRANSPARENT_COLOR_KEY THEN old
                 ELSE swap_color_bytes(source_color)

NoDraw ==
    [call |-> "none", screen |-> 0, x_pos |-> 0, y_pos |-> 0,
     eyelid_level |-> 0, pattern |-> "null", image_type |-> 0, rows |-> {}]

\* Mutant of ChipSelectAfter: the other display's pin is left as it is.
ChipSelectAfterKeepOther(ind, pins) ==
    IF ind < 0 \/ ind >= NUM_SCREEN THEN pins
    ELSE [d \in Eyes |-> IF d = ind THEN "LOW" ELSE pins[d]]

\* The CS pins after select_screen(ind): the selected display LOW, the other
\* HIGH; an index outside 0..NUM_SCREEN-1 returns before any pin is written.
ChipSelectAfter(ind, pins) ==
    IF ind < 0 \/ ind >= NUM_SCREEN THEN pins
    ELSE [d \in Eyes |-> IF d = ind THEN "LOW" ELSE "HIGH"]

\* select_screen(ind)
select_screen(ind) ==
    /\ active_screen_index' =
          IF ind < 0 \/ ind >= NUM_SCREEN THEN active_screen_index ELSE ind
    /\ chip_select' = ChipSelectAfter(ind, chip_select)
    /\ UNCHANGED <<framebuffers, circular_scanlines, eye_texture,
                   arg_eyelid_level, arg_image_type, last_draw, panels>>

\* clear_buffer(color): both branches leave every pixel of the active buffer
\* at the byte-swapped colour.
clear_buffer(color) ==
    /\ framebuffers' =
          [framebuffers EXCEPT ![active_screen_index] =
              [idx \in ProbeIndices |-> swap_color_bytes(color)]]
    /\ last_draw' = [NoDraw EXCEPT !.call = "clear_buffer",
                                   !.screen = active_screen_index]
    /\ UNCHANGED <<active_screen_index, circular_scanlines, eye_texture,
                   arg_eyelid_level, arg_image_type, chip_select, panels>>

\* What eye_texture.buffers[image_type] reads.  The index is not checked:
\* outside 0..NUM_EYE_IMAGE_TYPES-1 the read is beyond the table and
\* returns whatever word lies there, a null pointer or the address of
\* arbitrary memory (followed here as an opaque or a blank image).
TextureRead(image_type) ==
    IF image_type \in EyeImageTypes THEN {eye_texture[image_type]}
    ELSE {"null", "opaque", "blank"}

\* Mutant of draw_eye_image: the rows are written to every framebuffer.
draw_eye_image_every_buffer(x_pos, y_pos, eyelid_level, image_type) ==
    \E pattern \in TextureRead(image_type) :
        /\ framebuffers' =
              IF pattern = "null" THEN framebuffers
              ELSE [i \in Eyes |->
                      [idx \in ProbeIndices |->
                          PixelAfterDraw(framebuffers[i][idx], idx, x_pos,
                                         y_pos, EyelidCutoff(eyelid_level),
                                         circular_scanlines, pattern)]]
        /\ last_draw' =
              [call |-> "draw_eye_image", screen |-> active_screen_index,
               x_pos |-> x_pos, y_pos |-> y_pos,
               eyelid_level |-> eyelid_level, pattern |-> pattern,
               image_type |-> image_type,
               rows |-> IF pattern = "null" THEN {}
                        ELSE DrawRows(x_pos, y_pos, eyelid_level,
                                      circular_scanlines)]
        /\ UNCHANGED <<active_screen_index, circular_scanlines, eye_texture,
                       arg_eyelid_level, arg_image_type, chip_select, panels>>

\* draw_eye_image(x_pos, y_pos, eyelid_level, image_type)
draw_eye_image(x_pos, y_pos, eyelid_level, image_type) ==
    \E pattern \in TextureRead(image_type) :
    LET cutoff == EyelidCutoff(eyelid_level)
        buffer == framebuffers[active_screen_index]
    IN  /\ framebuffers' =
              IF pattern = "null" THEN framebuffers
              ELSE [framebuffers EXCEPT ![active_screen_index] =
                      [idx \in ProbeIndices |->
                          PixelAfterDraw(buffer[idx], idx, x_pos, y_pos,
                                         cutoff, circular_scanlines, pattern)]]
        /\ last_draw' =
              [call |-> "draw_eye_image", screen |-> active_screen_index,
               x_pos |-> x_pos, y_pos |-> y_pos,
               eyelid_level |-> eyelid_level, pattern |-> pattern,
               image_type |-> image_type,
               rows |-> IF pattern = "null" THEN {}
                        ELSE DrawRows(x_pos, y_pos, eyelid_level,
                                      circular_scanlines)]
        /\ UNCHANGED <<active_screen_index, circular_scanlines, eye_texture,
                       arg_eyelid_level, arg_image_type, chip_select, panels>>

\* Mutant of PixelOffset: twice the travel.
PixelOffsetDouble(target) ==
    ToInt16(TruncDiv(target * 2 * MAX_2D_OFFSET_PIXELS, FScale))

\* int16_t x_offset = target_x * MAX_2D_OFFSET_PIXELS (likewise y).
PixelOffset(target) == ToInt16(TruncDiv(target * MAX_2D_OFFSET_PIXELS, FScale))

\* draw_eye_at_target(target_x, target_y, eyelid_level, image_type)
draw_eye_at_target(target_x, target_y, eyelid_level, image_type) ==
    draw_eye_image(ToInt16(RESTING_2D_OFFSET_PIXELS + PixelOffset(target_x)),
                   ToInt16(RESTING_2D_OFFSET_PIXELS + PixelOffset(target_y)),
                   eyelid_level, image_type)

\* A display that has received nothing yet.
NoImage == [src |-> "none", index |-> -1, image |-> << >>]

\* tft.pushImage / tft.fillScreen reach every display whose CS pin is LOW.
PanelsAfter(pins, image, shown) ==
    [d \in Eyes |-> IF pins[d] = "LOW" THEN image ELSE shown[d]]

\* display_buffer(ind)
display_buffer(ind) ==
    IF ind < 0 \/ ind >= NUM_SCREEN
    THEN UNCHANGED <<framebuffers, active_screen_index, circular_scanlines,
                     eye_texture, arg_eyelid_level, arg_image_type, last_draw,
                     chip_select, panels>>
    ELSE /\ active_screen_index' = ind
         /\ chip_select' = ChipSelectAfter(ind, chip_select)
         /\ panels' = PanelsAfter(ChipSelectAfter(ind, chip_select),
                                  [src |-> "framebuffer", index |-> ind,
                                   image |-> framebuffers[ind]],
                                  panels)
         /\ UNCHANGED <<framebuffers, circular_scanlines, eye_texture,
                        arg_eyelid_level, arg_image_type, last_draw>>

\* get_eye_position(eye_index)
get_eye_position(eye_index) ==
    IF eye_index >= 0 /\ eye_index < NUM_SCREEN
    THEN eye_positions[eye_index]
    ELSE [x |-> 0, y |-> 0]

\* The loop of the main sketch draws with the eyelid open.
EyelidOpen == 0

\* get_current_eye_image_type(target)
get_current_eye_image_type(target) ==
    IF target.is_valid THEN EYE_IMAGE_BAD ELSE EYE_IMAGE_NORMAL

EYE_LEFT == 0
EYE_RIGHT == 1
TFT_RED == 63488          \* 0xF800

\* The loop's debug grid: grid_size = 80, grid_pos = (SCR_WD - grid_size) / 2.
DEBUG_GRID_SIZE == 80
DEBUG_GRID_POS == (SCR_WD - DEBUG_GRID_SIZE) \div 2

\* uint8_t gray_8bit = constrain((dist - 10) / 490.0f, 0, 1) * 255.  The
\* truncated float product is the truncated exact quotient unless the
\* quotient is an integer (dist - 10 a multiple of 98 below 490), which no
\* frame of the model holds.
DebugGray(dist) ==
    IF dist <= 10 THEN 0
    ELSE IF dist >= 500 THEN 255
    ELSE ((dist - 10) * 255) \div 490

\* The colour draw_tof_debug_grid gives the cell (cell_x, cell_y): red for
\* the highlighted zone, else the grey of the zone's distance; the zone is
\* read transposed (zone_index = cell_x * 8 + cell_y).
DebugCellColor(data, cell_x, cell_y, highlight_x, highlight_y) ==
    IF highlight_x # -1 /\ cell_y = highlight_x /\ cell_x = highlight_y
    THEN swap_color_bytes(TFT_RED)
    ELSE LET gray_8bit == DebugGray(data[cell_x * GRID + cell_y].distance_mm)
             r == gray_8bit \div 8
             g == gray_8bit \div 4
             b == gray_8bit \div 8
         IN  swap_color_bytes(r * 2048 + g * 32 + b)

\* The pixel of index idx after draw_tof_debug_grid(x_pos, y_pos, grid_size,
\* data, highlight_x, highlight_y) with grid_size a multiple of 8: the 8x8
\* cells tile the square of side grid_size at (x_pos, y_pos).
PixelAfterDebugGrid(old, idx, x_pos, y_pos, grid_size, data, highlight_x, highlight_y) ==
    LET py == idx \div SCR_WD
        px == idx % SCR_WD
        cell_size == grid_size \div GRID
    IN  IF /\ px >= x_pos /\ px < x_pos + grid_size
           /\ py >= y_pos /\ py < y_pos + grid_size
        THEN DebugCellColor(data, (px - x_pos) \div cell_size,
                            (py - y_pos) \div cell_size,
                            highlight_x, highlight_y)
        ELSE old

\* The offsets draw_eye_at_target passes to draw_eye_image for a position.
DrawOffsets(pos) ==
    [x_pos |-> ToInt16(RESTING_2D_OFFSET_PIXELS + PixelOffset(pos.x)),
     y_pos |-> ToInt16(RESTING_2D_OFFSET_PIXELS + PixelOffset(pos.y))]

\* The framebuffer of screen i after the body of the loop's for statement:
\* clear_buffer(TFT_BLACK), draw_eye_at_target(pos.x, pos.y, 0, image_type)
\* and, on the right screen, draw_tof_debug_grid over the eye.  (The FPS
\* string that follows is written to rows 5..20, none of them a probe row.)
LoopFramebuffer(i, pos, image_type, data, target) ==
    LET pattern == eye_texture[image_type]
        at == DrawOffsets(pos)
        cutoff == EyelidCutoff(EyelidOpen)
        cleared == swap_color_bytes(TFT_BLACK)
    IN  [idx \in ProbeIndices |->
            LET eye == IF pattern = "null" THEN cleared
                       ELSE PixelAfterDraw(cleared, idx, at.x_pos, at.y_pos,
                                           cutoff, circular_scanlines, pattern)
            IN  IF i = EYE_RIGHT
                THEN PixelAfterDebugGrid(eye, idx, DEBUG_GRID_POS,
                                         DEBUG_GRID_POS, DEBUG_GRID_SIZE, data,
                                         target.min_dist_pixel_x,
                                         target.min_dist_pixel_y)
                ELSE eye]

\* init_tft: framebuffers allocated and not written, scanlines computed,
\* each image loaded from its file or left unloaded ("null").
InitTft(fills, textures) ==
    /\ \E f \in fills : framebuffers = [i \in Eyes |-> UninitializedBuffer(f)]
    /\ active_screen_index = 0
    /\ circular_scanlines = precalculate_scanlines
    /\ eye_texture \in textures
    /\ last_draw = NoDraw
    /\ chip_select = [d \in Eyes |-> "HIGH"]
    /\ panels = [d \in Eyes |-> NoImage]


-----------------------------------------------------------------------------
(* Start-up: setup() of the main sketch, init_tft                          *)

\* A framebuffer pointer that is null.
NullBuffer == [idx \in {} |-> 0]

IsNull(buffer) == DOMAIN buffer = {}

\* Globals before init_tft has run: zero-filled.
UnsetScanlines == [y \in 0..(SCR_HT - 1) |-> [x_start |-> 0, x_end |-> 0]]

\* Mutant of AllocationLoop: the loop goes on after a null pointer.
AllocationLoopNoHalt(alloc, fill) ==
    [halted |-> FALSE,
     framebuffers |-> [i \in Eyes |-> IF alloc[i] THEN UninitializedBuffer(fill)
                                      ELSE NullBuffer],
     log |-> {}]

\* The allocation loop of init_tft, ps_malloc succeeding for display i iff
\* alloc[i]: at the first null pointer it prints the diagnostic and halts
\* in while(1); the displays after it keep their null pointer.
AllocationLoop(alloc, fill) ==
    LET failed == {i \in Eyes : ~alloc[i]}
        first == IF failed = {} THEN NUM_SCREEN
                 ELSE CHOOSE i \in failed : \A j \in failed : i <= j
    IN  [halted |-> failed # {},
         framebuffers |-> [i \in Eyes |-> IF i < first
                                          THEN UninitializedBuffer(fill)
                                          ELSE NullBuffer],
         log |-> IF failed = {} THEN {}
                 ELSE {<<"FATAL: Failed to allocate framebuffer", first>>}]

\* How a call of load_specific_eye_image can end.
LoadOutcomes == {"ok", "missing", "size_mismatch", "no_memory"}

\* The content of the two image files.
FileContent(image_type) ==
    IF image_type = EYE_IMAGE_NORMAL THEN "iris" ELSE "opaque"

\* load_specific_eye_image: *buffer after the call (it was null before);
\* every failure returns false with the pointer still null.
load_specific_eye_image(outcome, content) ==
    IF outcome = "ok" THEN content ELSE "null"

\* What load_specific_eye_image prints (one message per kind of failure in
\* the code, followed here as one).
LoadDiagnostic(outcome, image_type) ==
    IF outcome = "ok" THEN <<"loaded successfully", image_type>>
    ELSE <<"load failed", image_type>>

\* Both framebuffers after show_splash_screen: cleared to black, the text
\* sprite copied to the centre (its lit pixels stand for the lettering).
SplashBuffer ==
    [idx \in ProbeIndices |->
        IF idx \div SCR_WD = SCR_HT \div 2 /\ (idx % SCR_WD) \in 60..180
           /\ idx % 3 = 0
        THEN 65535 ELSE swap_color_bytes(TFT_BLACK)]

\* setup(): LittleFS.begin(); a failed mount halts.
MountFileSystem ==
    /\ pc = "setup"
    /\ \E mounted \in BOOLEAN :
          /\ pc' = IF mounted THEN "init_tft" ELSE "halted"
          /\ serial_log' = IF mounted THEN serial_log
                           ELSE serial_log \cup {<<"FATAL: LittleFS mount failed">>}
    /\ UNCHANGED <<tofVars, gazeVars, drawVars>>

\* init_tft(): the allocation loop, then pins, scanlines and both image
\* loads, whose return values are not looked at.
InitTftStep ==
    /\ pc = "init_tft"
    /\ \E alloc \in [Eyes -> BOOLEAN], loads \in [EyeImageTypes -> LoadOutcomes] :
          LET a == AllocationLoop(alloc, "ramp")
          IN  /\ framebuffers' = a.framebuffers
              /\ IF a.halted
                 THEN /\ pc' = "halted"
                      /\ serial_log' = serial_log \cup a.log
                      /\ UNCHANGED <<circular_scanlines, eye_texture,
                                     chip_select>>
                 ELSE /\ pc' = "setup_screens"
                      /\ chip_select' = [d \in Eyes |-> "HIGH"]
                      /\ circular_scanlines' = precalculate_scanlines
                      /\ eye_texture' =
                            [t \in EyeImageTypes |->
                               load_specific_eye_image(loads[t], FileContent(t))]
                      /\ serial_log' = serial_log \cup
                            {LoadDiagnostic(loads[t], t) : t \in EyeImageTypes}
    /\ UNCHANGED <<tofVars, gazeVars, active_screen_index, arg_eyelid_level,
                   arg_image_type, last_draw, panels>>

\* The rest of setup(): clear_all_screens(TFT_BLACK), show_splash_screen()
\* (select, clear and fill each framebuffer, display_all_buffers), then the
\* loop starts.
SetupScreens ==
    /\ pc = "setup_screens"
    /\ framebuffers' = [i \in Eyes |-> SplashBuffer]
    /\ active_screen_index' = NUM_SCREEN - 1
    /\ chip_select' = ChipSelectAfter(NUM_SCREEN - 1, chip_select)
    /\ panels' = [d \in Eyes |-> [src |-> "framebuffer", index |-> d,
                                  image |-> SplashBuffer]]
    /\ last_draw' = [NoDraw EXCEPT !.call = "pushSpriteToFb",
                                   !.screen = NUM_SCREEN - 1]
    /\ pc' = "loop"
    /\ UNCHANGED <<tofVars, gazeVars, circular_scanlines, eye_texture,
                   arg_eyelid_level, arg_image_type, serial_log>>

-----------------------------------------------------------------------------
(* Depth frames the sensor delivers in the model                           *)

\* A frame with a 3x3 target pattern centred on row ty, column tx: the centre
\* at td, its in-grid neighbours at nd, every other zone bg.  This is the
\* frame run_calibration_simulation builds (index = y * 8 + x, all zones
\* marked valid) with td, nd, bg = 200, 300, 1000.
PatternFrame(ty, tx, td, nd, bg) ==
    [i \in Zones |->
        LET y == i \div GRID
            x == i % GRID
            dist_x == Abs(x - tx)
            dist_y == Abs(y - ty)
        IN  IF dist_x = 0 /\ dist_y = 0 THEN Zone(td, STATUS_VALID)
            ELSE IF dist_x <= 1 /\ dist_y <= 1 THEN Zone(nd, STATUS_VALID)
            ELSE bg]

\* calib_positions[NUM_CALIB_POSITIONS][2]: {target_x, target_y}
CalibPositions ==
    << <<1, 1>>, <<1, 4>>, <<1, 6>>,
       <<4, 1>>, <<4, 4>>, <<4, 6>>,
       <<6, 1>>, <<6, 4>>, <<6, 6>>,
       <<0, 0>>, <<0, 7>>, <<7, 0>>, <<7, 7>> >>

\* The matrix run_calibration_simulation writes for calib_position_index k.
CalibrationFrame(k) ==
    PatternFrame(CalibPositions[k + 1][2], CalibPositions[k + 1][1],
                 200, 300, Zone(1000, STATUS_VALID))

UniformFrame(z) == [i \in Zones |-> z]

\* A rectangle of valid zones at distance d (rows r0..r1, columns c0..c1)
\* on a background bg.
BlockFrame(r0, r1, c0, c1, d, bg) ==
    [i \in Zones |->
        IF /\ (i \div GRID) >= r0 /\ (i \div GRID) <= r1
           /\ (i % GRID) >= c0 /\ (i % GRID) <= c1
        THEN Zone(d, STATUS_VALID) ELSE bg]

\* Frames with no reliable zone at all: invalid status, or at/over the
\* threshold, or a mix of both.
NoTargetFrames ==
    { UniformFrame(Zone(100, 0)), UniformFrame(Zone(100, 255)),
      UniformFrame(Zone(MAX_DIST_TOF, STATUS_VALID)),
      UniformFrame(Zone(1000, STATUS_VALID)),
      [i \in Zones |-> IF ((i \div GRID) + (i % GRID)) % 2 = 0
                       THEN Zone(100, 0) ELSE Zone(500, STATUS_VALID)],
      [i \in Zones |-> IF i % 3 = 0 THEN Zone(MAX_DIST_TOF, STATUS_VALID)
                       ELSE Zone(i, 4)] }

\* The calibration positions the model delivers: interior ones and corners.
CalibIndices == {0, 4, 5, 9, 12}

\* Clear-target frames: the calibration matrices, and the pattern with the
\* distances 150 / 300 on a background exactly at the threshold, over it, or
\* not valid.
ClearTargetFrames ==
    { CalibrationFrame(k) : k \in CalibIndices }
      \cup { PatternFrame(3, 5, 150, 300, Zone(MAX_DIST_TOF, STATUS_VALID)),
             PatternFrame(3, 5, 150, 300, Zone(1000, STATUS_VALID)),
             PatternFrame(2, 2, 150, 300, Zone(120, 0)),
             PatternFrame(5, 3, 399, 399, Zone(2000, STATUS_VALID)) }

\* A cluttered scene: distances from 50 to 434 mm spread over the grid,
\* every seventh zone with an invalid status, and the rows 4 to 7 of the
\* columns 3 to 7 out of range but for two lone zones.
ScatterFrame ==
    [i \in Zones |->
        IF i % 7 = 3 THEN Zone(60, 0)
        ELSE IF (i \div GRID) >= 4 /\ (i % GRID) >= 3
        THEN (IF i \in {44, 62} THEN Zone(90, STATUS_VALID)
              ELSE Zone(MAX_DIST_TOF + i, STATUS_VALID))
        ELSE Zone(50 + 32 * ((i * 5) % 13), STATUS_VALID)]

\* Two objects at the same distance: rows 1..2 of columns 5..6 and rows
\* 4..5 of columns 1..2.
TwoBlockFrame ==
    [i \in Zones |->
        IF \/ (i \div GRID) \in 1..2 /\ (i % GRID) \in 5..6
           \/ (i \div GRID) \in 4..5 /\ (i % GRID) \in 1..2
        THEN Zone(220, STATUS_VALID)
        ELSE Zone(1500, STATUS_VALID)]

\* Other frames: too few reliable zones for any window (1x3), exactly enough
\* (2x2), a wide flat surface, a field of reliable zones everywhere, the
\* cluttered scene and the two objects.
OtherFrames ==
    { BlockFrame(4, 4, 2, 4, 250, Zone(1000, STATUS_VALID)),
      BlockFrame(6, 7, 0, 1, 250, Zone(0, 0)),
      BlockFrame(2, 5, 1, 6, 350, Zone(900, STATUS_VALID)),
      UniformFrame(Zone(399, STATUS_VALID)),
      UniformFrame(Zone(0, STATUS_VALID)),
      ScatterFrame,
      TwoBlockFrame }

InputFrames == NoTargetFrames \cup ClearTargetFrames \cup OtherFrames

-----------------------------------------------------------------------------
(* Actions                                                                 *)

\* The outcomes of a poll: <<isDataReady(), getRangingData()>>.
PollOutcomes == {<<FALSE, FALSE>>, <<TRUE, FALSE>>, <<TRUE, TRUE>>}

\* update_tof_sensor_data(): one poll of the sensor, whose outcome is one of
\* `outcomes` and which delivers one of `frames` when it delivers.
PollSensor(frames, outcomes) ==
    \E o \in outcomes :
      \E frame \in BufferAfterPoll(o[1], o[2], measurementData, frames) :
        /\ measurementData' = frame
        /\ current_target' = TargetAfterPoll(o[1], o[2], frame, current_target)
        /\ sensor_event' =
               PollEvent(o[1], o[2], frame = measurementData, sensor_event)

UpdateTofSensorData == PollSensor(InputFrames, PollOutcomes)
                       /\ UNCHANGED <<gazeVars, drawVars, bootVars>>

\* Statics of tof_sensor.cpp at start-up: a zero-filled measurement buffer
\* and the initialized current_target.
InitTof ==
    /\ measurementData = UniformFrame(Zone(0, 0))
    /\ current_target = InitialTarget
    /\ sensor_event = "boot"

\* Textures of the compositor specification: the idle image loaded, the
\* tracking image missing from the file system.
LoadedTextures ==
    {[t \in EyeImageTypes |-> IF t = EYE_IMAGE_NORMAL THEN "iris" ELSE "null"]}

Init ==
    /\ InitTof
    /\ InitGaze
    /\ InitTft({"ramp"}, {[t \in EyeImageTypes |-> "iris"]})
    /\ arg_eyelid_level = EyelidOpen
    /\ arg_image_type = EYE_IMAGE_NORMAL
    /\ pc = "loop"
    /\ serial_log = {}

NextTof == UpdateTofSensorData

\* The detector alone, over every input frame of the model.
SpecTof == Init /\ [][NextTof]_vars

\* Frames of the gaze specifications: one with no target, one with one.
GazeFrames ==
    { UniformFrame(Zone(100, 0)),
      PatternFrame(3, 5, 150, 300, Zone(MAX_DIST_TOF, STATUS_VALID)) }

GazePoll == PollSensor(GazeFrames, {<<TRUE, TRUE>>})
            /\ UNCHANGED <<gazeVars, drawVars, bootVars>>

\* Loop iterations far apart: the idle timers.
TimingSteps == {900, 1100}

TimingTick == EyeTick(TimingSteps, MaxTime, {RANDOM_LO, 37})

NextGaze == GazePoll \/ TimingTick

SpecGaze == Init /\ [][NextGaze]_vars

\* The same, with the loop never stopping: loop() is called again as soon
\* as it returns, so a tick that stays possible is eventually taken.
SpecIdle == Init /\ [][NextGaze]_vars /\ WF_vars(TimingTick)

\* The sensor with every poll outcome, between ticks a little more than a
\* second apart: frames may stop coming while a Target is held.
HoldPoll == PollSensor(GazeFrames, PollOutcomes)
            /\ UNCHANGED <<gazeVars, drawVars, bootVars>>

HoldSteps == {1100}

HoldTick == EyeTick(HoldSteps, MaxTime, {RANDOM_LO})

NextHold == HoldPoll \/ HoldTick

SpecHold == Init /\ [][NextHold]_vars

\* Frames of the smoothing specification: targets at the grid's corners and
\* inside it, and no target.
LerpFrames ==
    { UniformFrame(Zone(100, 0)),
      UniformFrame(Zone(399, STATUS_VALID)),
      BlockFrame(6, 7, 0, 1, 250, Zone(0, 0)),
      PatternFrame(3, 5, 150, 300, Zone(MAX_DIST_TOF, STATUS_VALID)) }

LerpPoll ==
    /\ now < LerpPollUntil
    /\ PollSensor(LerpFrames, {<<TRUE, TRUE>>})
    /\ UNCHANGED <<gazeVars, drawVars, bootVars>>

\* Loop iterations 20 ms apart.
LerpSteps == {20}

LerpTick == EyeTick(LerpSteps, MaxLerpTime, RandomValues)

NextLerp == LerpPoll \/ LerpTick

SpecLerp == Init /\ [][NextLerp]_vars

\* Gaze positions and eyelid levels the compositor is driven with.
GazeSamples == {-FScale, FScale \div 3, FScale}

EyelidLevels == {0, 1, 64, 127, EYELID_CLOSED, 255}

ClearColors == {TFT_BLACK}

InitDraw ==
    /\ InitTof
    /\ now = 0
    /\ \E gx \in GazeSamples, gy \in GazeSamples :
          eye_positions = [i \in Eyes |-> [x |-> gx, y |-> gy]]
    /\ last_saccade_time = 0
    /\ saccade_target_x = 0
    /\ saccade_target_y = 0
    /\ last_track_time = 0
    /\ last_known_target_x = 0
    /\ last_known_target_y = 0
    /\ InitTft({"ramp"}, LoadedTextures)
    /\ arg_eyelid_level \in EyelidLevels
    /\ arg_image_type \in EyeImageTypes
    /\ pc = "loop"
    /\ serial_log = {}

SelectScreen ==
    /\ \E ind \in -1..NUM_SCREEN : select_screen(ind)
    /\ UNCHANGED <<tofVars, gazeVars, bootVars>>

ClearBuffer ==
    /\ \E color \in ClearColors : clear_buffer(color)
    /\ UNCHANGED <<tofVars, gazeVars, bootVars>>

\* The draw call of the loop: the position of the selected eye.
DrawEyeAtTarget ==
    /\ draw_eye_at_target(eye_positions[active_screen_index].x,
                          eye_positions[active_screen_index].y,
                          arg_eyelid_level, arg_image_type)
    /\ UNCHANGED <<tofVars, gazeVars, bootVars>>

NextDraw == SelectScreen \/ ClearBuffer \/ DrawEyeAtTarget

SpecDraw == InitDraw /\ [][NextDraw]_vars

\* Image positions draw_eye_image is called with directly: the ends of the
\* int16_t range for which x_pos + 350 and y_pos + 349 do not overflow,
\* positions that leave the image off the screen, just on it, and over it.
TextureXPositions == {-32768, -349, -110, 239, 32417}

TextureYPositions == {-32768, -349, -110, 239, 32418}

\* The compositor with an image file whose pixels are all transparent:
\* every texel of a draw range is read and none is written.
InitTexture ==
    /\ InitTof
    /\ InitGaze
    /\ InitTft({"ramp"}, {[t \in EyeImageTypes |-> "blank"]})
    /\ arg_eyelid_level \in EyelidLevels
    /\ arg_image_type = EYE_IMAGE_NORMAL
    /\ pc = "loop"
    /\ serial_log = {}

DrawEyeImage ==
    /\ \E x_pos \in TextureXPositions, y_pos \in TextureYPositions :
          draw_eye_image(x_pos, y_pos, arg_eyelid_level, arg_image_type)
    /\ UNCHANGED <<tofVars, gazeVars, bootVars>>

NextTexture == DrawEyeImage

SpecTexture == InitTexture /\ [][NextTexture]_vars

\* Power-on: every global zero, setup() about to run.
InitBoot ==
    /\ InitTof
    /\ InitGaze
    /\ framebuffers = [i \in Eyes |-> NullBuffer]
    /\ active_screen_index = 0
    /\ circular_scanlines = UnsetScanlines
    /\ eye_texture = [t \in EyeImageTypes |-> "null"]
    /\ last_draw = NoDraw
    /\ chip_select = [d \in Eyes |-> "unset"]
    /\ panels = [d \in Eyes |-> NoImage]
    /\ arg_eyelid_level = EyelidOpen
    /\ arg_image_type \in {EYE_IMAGE_NORMAL, NUM_EYE_IMAGE_TYPES}
    /\ pc = "setup"
    /\ serial_log = {}

\* Calls of the drawing interface once the loop runs, with any index.
DisplayBuffer ==
    /\ \E ind \in -1..NUM_SCREEN : display_buffer(ind)
    /\ UNCHANGED <<tofVars, gazeVars, bootVars>>

LoopSelectScreen == pc = "loop" /\ SelectScreen

LoopDisplayBuffer == pc = "loop" /\ DisplayBuffer

LoopDrawEye == pc = "loop" /\ DrawEyeAtTarget

NextBoot ==
    \/ MountFileSystem
    \/ InitTftStep
    \/ SetupScreens
    \/ LoopSelectScreen
    \/ LoopDisplayBuffer
    \/ LoopDrawEye

\* Start-up with every allocation and load outcome, then the drawing
\* interface called with any screen index and, in some runs, an image type
\* beyond the enumeration.
SpecBoot == InitBoot /\ [][NextBoot]_vars

\* Mutant of LoopIteration: the eyes are drawn at the positions held before
\* the gaze update.
LoopIterationDrawFirst(frames, outcomes, steps, limit, randoms) ==
    \E dt \in steps :
      /\ now + dt < limit
      /\ PollSensor(frames, outcomes)
      /\ UpdateEyePositions(current_target', now + dt, randoms)
      /\ LET target == current_target'
             image_type == get_current_eye_image_type(target)
             drawn == [i \in Eyes |->
                          LoopFramebuffer(i, get_eye_position(i), image_type,
                                          measurementData', target)]
             last == DrawOffsets(get_eye_position(NUM_SCREEN - 1))
             left_pins == ChipSelectAfter(EYE_LEFT, chip_select)
             right_pins == ChipSelectAfter(EYE_RIGHT, left_pins)
         IN  /\ framebuffers' = drawn
             /\ active_screen_index' = EYE_RIGHT
             /\ chip_select' = right_pins
             /\ panels' =
                   PanelsAfter(right_pins,
                               [src |-> "framebuffer", index |-> EYE_RIGHT,
                                image |-> framebuffers'[EYE_RIGHT]],
                               PanelsAfter(left_pins,
                                           [src |-> "framebuffer",
                                            index |-> EYE_LEFT,
                                            image |-> framebuffers'[EYE_LEFT]],
                                           panels))
             /\ last_draw' =
                   [call |-> "draw_eye_image", screen |-> NUM_SCREEN - 1,
                    x_pos |-> last.x_pos, y_pos |-> last.y_pos,
                    eyelid_level |-> EyelidOpen,
                    pattern |-> eye_texture[image_type],
                    image_type |-> image_type,
                    rows |-> IF eye_texture[image_type] = "null" THEN {}
                             ELSE DrawRows(last.x_pos, last.y_pos, EyelidOpen,
                                           circular_scanlines)]
      /\ UNCHANGED <<circular_scanlines, eye_texture, arg_eyelid_level,
                     arg_image_type, bootVars>>

\* One iteration of loop(): the sensor update, get_tof_target, the gaze
\* update, the for statement over both screens and display_all_buffers.
\* millis() has advanced by one of `steps` since the previous iteration.
LoopIteration(frames, outcomes, steps, limit, randoms) ==
    \E dt \in steps :
      /\ now + dt < limit
      /\ PollSensor(frames, outcomes)
      /\ UpdateEyePositions(current_target', now + dt, randoms)
      /\ LET target == current_target'
             image_type == get_current_eye_image_type(target)
             drawn == [i \in Eyes |->
                          LoopFramebuffer(i, get_eye_position(i)', image_type,
                                          measurementData', target)]
             last == DrawOffsets(get_eye_position(NUM_SCREEN - 1)')
             left_pins == ChipSelectAfter(EYE_LEFT, chip_select)
             right_pins == ChipSelectAfter(EYE_RIGHT, left_pins)
         IN  /\ framebuffers' = drawn
             /\ active_screen_index' = EYE_RIGHT
             /\ chip_select' = right_pins
             /\ panels' =
                   PanelsAfter(right_pins,
                               [src |-> "framebuffer", index |-> EYE_RIGHT,
                                image |-> framebuffers'[EYE_RIGHT]],
                               PanelsAfter(left_pins,
                                           [src |-> "framebuffer",
                                            index |-> EYE_LEFT,
                                            image |-> framebuffers'[EYE_LEFT]],
                                           panels))
             /\ last_draw' =
                   [call |-> "draw_eye_image", screen |-> NUM_SCREEN - 1,
                    x_pos |-> last.x_pos, y_pos |-> last.y_pos,
                    eyelid_level |-> EyelidOpen,
                    pattern |-> eye_texture[image_type],
                    image_type |-> image_type,
                    rows |-> IF eye_texture[image_type] = "null" THEN {}
                             ELSE DrawRows(last.x_pos, last.y_pos, EyelidOpen,
                                           circular_scanlines)]
      /\ UNCHANGED <<circular_scanlines, eye_texture, arg_eyelid_level,
                     arg_image_type, bootVars>>

\* Frames of the loop specification: no target, a target, a target in a
\* corner, and a flat surface filling the field of view.
LoopFrames ==
    { UniformFrame(Zone(100, 0)),
      PatternFrame(3, 5, 150, 300, Zone(MAX_DIST_TOF, STATUS_VALID)),
      BlockFrame(6, 7, 0, 1, 250, Zone(0, 0)),
      UniformFrame(Zone(399, STATUS_VALID)) }

\* Loop iterations 20 ms apart.
LoopSteps == {20}

LoopTick ==
    LoopIteration(LoopFrames, PollOutcomes, LoopSteps, MaxLoopTime,
                  RandomValues)

NextLoop == LoopTick

\* The whole loop, every poll outcome on every iteration.
SpecLoop == Init /\ [][NextLoop]_vars

-----------------------------------------------------------------------------
(* Properties of the detector                                              *)

\* The last poll ran process_measurement_data on measurementData.
Processed == sensor_event \in {"processed", "reprocessed"}

\* The "clear target" pattern centred on the interior zone (r, c): the centre
\* valid and closer than each of its 8 neighbours, the neighbours valid and
\* below the threshold, every other zone at or over the threshold.
ClearTargetPattern(data, r, c) ==
    /\ Reliable(data, r * GRID + c)
    /\ \A i \in Zones :
          LET dy == Abs((i \div GRID) - r)
              dx == Abs((i % GRID) - c)
          IN  IF dy = 0 /\ dx = 0 THEN TRUE
              ELSE IF dy <= 1 /\ dx <= 1
                   THEN /\ Reliable(data, i)
                        /\ data[i].distance_mm > data[r * GRID + c].distance_mm
                   ELSE data[i].distance_mm >= MAX_DIST_TOF

\* v is the float (pixel - 3.5) / 3.5, to the rounding of the last unit.
IsNormOf(v, pixel) == Abs(7 * v - (2 * pixel - 7) * FScale) <= 3

\* C1: after a detection run on a frame holding the clear-target pattern
\* centred on an interior zone (r, c), the Target is valid and reports the
\* centre: row r, column c, x = (r - 3.5) / 3.5, y = (c - 3.5) / 3.5.
C1_ClearTargetReportsCentre ==
    \A r \in 1 .. (GRID - 2), c \in 1 .. (GRID - 2) :
        (Processed /\ ClearTargetPattern(measurementData, r, c)) =>
            /\ current_target.is_valid
            /\ current_target.min_dist_pixel_y = r
            /\ current_target.min_dist_pixel_x = c
            /\ IsNormOf(current_target.x, r)
            /\ IsNormOf(current_target.y, c)

\* No zone of the frame is both valid and below the threshold.
NoReliableZone(data) ==
    \A i \in Zones :
        data[i].target_status # STATUS_VALID
            \/ data[i].distance_mm >= MAX_DIST_TOF

\* C2: after a detection run on a frame in which every zone is invalid or at
\* or over MAX_DIST_TOF, the Target is invalid with the sentinel grid
\* coordinates (-1, -1), whatever Target was held before the run.
C2_NoReliableZoneGivesInvalid ==
    (Processed /\ NoReliableZone(measurementData)) =>
        /\ ~current_target.is_valid
        /\ current_target.min_dist_pixel_x = -1
        /\ current_target.min_dist_pixel_y = -1

\* C2 witness: a run on such a frame that followed a valid Target (x, y and
\* distance_mm still show it).
C2_Witness ==
    /\ Processed /\ NoReliableZone(measurementData)
    /\ ~current_target.is_valid
    /\ current_target.distance_mm > 0
    /\ current_target.x # 0

\* C3: the Target after a detection run is a function of the frame alone: it
\* is the Target the same run yields from the start-up Target, whatever
\* Target was held before.
C3_TargetFunctionOfFrame ==
    Processed =>
        current_target = ProcessMeasurementData(measurementData, InitialTarget)

\* C4: a detection run on the frame the previous run saw leaves the Target
\* exactly as that run left it.
C4_DetectionIdempotent ==
    [][sensor_event' = "reprocessed" => current_target' = current_target]_vars

\* C4 witness: the same frame was processed again, once with a Target found
\* and once with none found after a Target had been held.
C4_Witness ==
    /\ sensor_event = "reprocessed"
    /\ ~current_target.is_valid
    /\ current_target.distance_mm > 0

\* C5: a poll that is not ready, or whose read fails, leaves every field of
\* the held Target unchanged.
C5_NoFrameKeepsTarget ==
    [][sensor_event' \in {"not_ready", "read_failed"}
           => current_target' = current_target]_vars

\* C5 witness: a valid Target is held after a poll whose read failed.
C5_Witness ==
    /\ sensor_event = "read_failed"
    /\ current_target.is_valid

\* The zones of the 3x3 neighbourhood of zone i that lie on the grid.
Neighbourhood(i) ==
    { r * GRID + c :
        r \in Max2(0, (i \div GRID) - 1) .. Min2(GRID - 1, (i \div GRID) + 1),
        c \in Max2(0, (i % GRID) - 1) .. Min2(GRID - 1, (i % GRID) + 1) }

\* A zone that counts: valid status and distance below the threshold.
CountedZone(data, i) ==
    /\ data[i].target_status = STATUS_VALID
    /\ data[i].distance_mm < MAX_DIST_TOF

\* The neighbourhood's zones that count.
ReliableNeighbours(data, i) ==
    { j \in Neighbourhood(i) : CountedZone(data, j) }

\* A qualifying centre: a zone that counts with at least
\* MIN_RELIABLE_PIXELS_IN_WINDOW counted zones in its neighbourhood (itself
\* among them).
QualifyingCentre(data, i) ==
    /\ CountedZone(data, i)
    /\ Cardinality(ReliableNeighbours(data, i)) >= MIN_RELIABLE_PIXELS_IN_WINDOW

\* The zone the Target reports: index = row * 8 + column.
ReportedCell == current_target.min_dist_pixel_y * GRID
                    + current_target.min_dist_pixel_x

\* C14: whenever a detection run reports a valid Target, the reported cell
\* has the smallest distance_mm among all qualifying centres of the frame.
C14_ReportsMinimumDistanceCell ==
    (Processed /\ current_target.is_valid) =>
        \A i \in Zones :
            QualifyingCentre(measurementData, i) =>
                measurementData[ReportedCell].distance_mm
                    <= measurementData[i].distance_mm

\* The sum of the distances of the zones of S.
RECURSIVE DistanceSum(_, _)
DistanceSum(data, S) ==
    IF S = {} THEN 0
    ELSE LET j == CHOOSE k \in S : TRUE
         IN  data[j].distance_mm + DistanceSum(data, S \ {j})

\* The neighbourhood average of i is at most that of j (each the sum of the
\* counted distances over their count, compared exactly).
AverageAtMost(data, i, j) ==
    DistanceSum(data, ReliableNeighbours(data, i))
          * Cardinality(ReliableNeighbours(data, j))
       <= DistanceSum(data, ReliableNeighbours(data, j))
             * Cardinality(ReliableNeighbours(data, i))

\* C16: after a detection run the Target is valid iff the frame has a
\* qualifying centre; the reported cell is then a qualifying centre whose
\* neighbourhood average (sum of the counted distances of its clamped 3x3
\* neighbourhood over their count, reported truncated as match_score) is
\* minimal over all qualifying centres.
C16_SelectionRule ==
    Processed =>
        /\ current_target.is_valid
              <=> \E i \in Zones : QualifyingCentre(measurementData, i)
        /\ current_target.is_valid =>
              /\ ReportedCell \in Zones
              /\ QualifyingCentre(measurementData, ReportedCell)
              /\ \A j \in Zones :
                    QualifyingCentre(measurementData, j) =>
                        AverageAtMost(measurementData, ReportedCell, j)
              /\ current_target.match_score =
                    DistanceSum(measurementData,
                                ReliableNeighbours(measurementData, ReportedCell))
                      \div Cardinality(ReliableNeighbours(measurementData,
                                                          ReportedCell))

\* C16 witness: a run chose a centre on the grid's edge, with fewer than 9
\* counted neighbours, on a frame that also holds a qualifying centre of
\* larger average, a counted zone that does not qualify and a zone that
\* does not count.
C16_Witness ==
    /\ Processed /\ current_target.is_valid
    /\ Cardinality(Neighbourhood(ReportedCell)) < 9
    /\ \E j \in Zones :
          /\ QualifyingCentre(measurementData, j)
          /\ ~AverageAtMost(measurementData, j, ReportedCell)
    /\ \E j \in Zones :
          /\ CountedZone(measurementData, j)
          /\ ~QualifyingCentre(measurementData, j)
    /\ \E j \in Zones : ~CountedZone(measurementData, j)

\* C17: among the qualifying centres that share the minimum neighbourhood
\* average the Target is the first in row-major order: every qualifying
\* centre scanned before the reported cell has a strictly larger average.
C17_FirstMinimumWins ==
    (Processed /\ current_target.is_valid) =>
        \A j \in Zones :
            (QualifyingCentre(measurementData, j) /\ j < ReportedCell) =>
                ~AverageAtMost(measurementData, j, ReportedCell)

\* C17 witness: a qualifying centre scanned after the reported cell has the
\* same neighbourhood average, in a later row and in an earlier column.
C17_Witness ==
    /\ Processed /\ current_target.is_valid
    /\ \E j \in Zones :
          /\ j > ReportedCell
          /\ (j % GRID) < (ReportedCell % GRID)
          /\ QualifyingCentre(measurementData, j)
          /\ AverageAtMost(measurementData, j, ReportedCell)
          /\ AverageAtMost(measurementData, ReportedCell, j)

\* The winning cell of a frame with a qualifying centre: the first, in
\* row-major order, of the qualifying centres of minimal average.
WinningCell(data) ==
    CHOOSE i \in Zones :
        /\ QualifyingCentre(data, i)
        /\ \A j \in Zones :
              QualifyingCentre(data, j) =>
                  /\ AverageAtMost(data, i, j)
                  /\ (AverageAtMost(data, j, i) => i <= j)

\* C18: for every valid Target the reported grid coordinates are the row
\* (min_dist_pixel_y) and the column (min_dist_pixel_x) of the winning cell,
\* x = (row - 3.5) / 3.5 and y = (col - 3.5) / 3.5, both within [-1, 1], and
\* distance_mm is the winning cell's own distance.
C18_TransposedCoordinates ==
    (Processed /\ current_target.is_valid) =>
        LET w == WinningCell(measurementData)
        IN  /\ current_target.min_dist_pixel_y = w \div GRID
            /\ current_target.min_dist_pixel_x = w % GRID
            /\ IsNormOf(current_target.x, w \div GRID)
            /\ IsNormOf(current_target.y, w % GRID)
            /\ current_target.x >= -FScale /\ current_target.x <= FScale
            /\ current_target.y >= -FScale /\ current_target.y <= FScale
            /\ current_target.distance_mm = measurementData[w].distance_mm

\* C18 witness: the winning cell lies below the diagonal (row > column) in
\* the lower left quarter, so that x > 0 > y, and its own distance is not
\* the window's average.
C18_Witness ==
    /\ Processed /\ current_target.is_valid
    /\ current_target.min_dist_pixel_y > current_target.min_dist_pixel_x
    /\ current_target.x > 0
    /\ current_target.y < 0
    /\ current_target.distance_mm # current_target.match_score

-----------------------------------------------------------------------------
(* Properties of the gaze controller                                       *)

\* A step of update_eye_positions: the only action that lets time pass.
IsTick == now' # now

\* The smoothing goal of a tick, read in the state the tick leaves.
GoalX == IF current_target.is_valid THEN current_target.x ELSE saccade_target_x

GoalY == IF current_target.is_valid THEN current_target.y ELSE saccade_target_y

SaccadeGoal == <<saccade_target_x, saccade_target_y, last_saccade_time>>

\* C6: a tick changes the idle saccade goal only when the Target is invalid,
\* more than SACCADE_DELAY_AFTER_TRACK_MS have passed since the last tick
\* with a valid Target and more than SACCADE_INTERVAL_MS since the last goal
\* change; a tick with a valid Target is the new "last valid tick".  Hence
\* no invalid tick within the grace period changes the goal.
C6_SaccadeGoalGate ==
    [][IsTick =>
         /\ (SaccadeGoal' # SaccadeGoal =>
                /\ ~current_target.is_valid
                /\ now' - last_track_time > SACCADE_DELAY_AFTER_TRACK_MS
                /\ now' - last_saccade_time > SACCADE_INTERVAL_MS)
         /\ (current_target.is_valid => now' - last_track_time' <= 1)]_vars

\* C6 witness: a saccade goal was drawn, a valid Target was tracked after
\* it, and the last tick was an invalid one within the grace period with the
\* saccade interval already elapsed.
C6_Witness ==
    /\ last_saccade_time > 0
    /\ last_track_time > last_saccade_time
    /\ ~current_target.is_valid
    /\ now - last_track_time > 1
    /\ now - last_track_time <= SACCADE_DELAY_AFTER_TRACK_MS
    /\ now - last_saccade_time > SACCADE_INTERVAL_MS

\* C10 as stated: each tick multiplies the distance to the goal by exactly
\* (1 - LERP_SPEED) on each axis.
C10_ExactGeometricDecay ==
    [][IsTick =>
         \A i \in Eyes :
            /\ LERP_SPEED_DEN * Abs(GoalX' - eye_positions'[i].x)
                 = (LERP_SPEED_DEN - LERP_SPEED_NUM)
                      * Abs(GoalX' - eye_positions[i].x)
            /\ LERP_SPEED_DEN * Abs(GoalY' - eye_positions'[i].y)
                 = (LERP_SPEED_DEN - LERP_SPEED_NUM)
                      * Abs(GoalY' - eye_positions[i].y)]_vars

\* One axis of one smoothing step from p to q toward goal g: q lies between
\* p and g, the distance is (1 - LERP_SPEED) times the old one to within the
\* rounding of the step, and it shrinks while it is above 2 units.
SmoothStep(p, q, g) ==
    /\ Abs(g - q) <= Abs(g - p)
    /\ Abs(q - p) <= Abs(g - p)
    /\ Abs(LERP_SPEED_DEN * Abs(g - q)
             - (LERP_SPEED_DEN - LERP_SPEED_NUM) * Abs(g - p))
          <= LERP_SPEED_DEN \div 2
    /\ (Abs(g - p) > 2 => Abs(g - q) < Abs(g - p))

\* C10 (amended): on every tick and each axis the distance of each eye
\* position to the goal never increases, equals (1 - LERP_SPEED) times the
\* previous distance up to the rounding of the arithmetic, and strictly
\* shrinks while it exceeds two rounding units.
C10_RoundedGeometricDecay ==
    [][IsTick =>
         \A i \in Eyes :
            /\ SmoothStep(eye_positions[i].x, eye_positions'[i].x, GoalX')
            /\ SmoothStep(eye_positions[i].y, eye_positions'[i].y, GoalY')]_vars

\* C10 witness: with a valid Target held, the eye has come to rest two
\* rounding units short of the goal on both axes.
C10_Witness ==
    /\ current_target.is_valid
    /\ now >= LerpPollUntil
    /\ Abs(GoalX - eye_positions[0].x) = 2
    /\ Abs(GoalY - eye_positions[0].y) = 2
    /\ Lerp(eye_positions[0].x, GoalX) = eye_positions[0].x

\* C19: on every tick whose Target is valid the smoothing goal is the
\* Target's (x, y) and the last-valid-track time is refreshed, whatever the
\* timers and the state before; on every tick whose Target is invalid the
\* goal is the idle saccade goal as the tick leaves it, not the Target's
\* coordinates, and the last-valid-track time is left alone.
C19_GoalFollowsValidity ==
    [][IsTick =>
         IF current_target'.is_valid
         THEN /\ \A i \in Eyes :
                    /\ eye_positions'[i].x
                         = Lerp(eye_positions[i].x, current_target'.x)
                    /\ eye_positions'[i].y
                         = Lerp(eye_positions[i].y, current_target'.y)
              /\ last_track_time' > now
              /\ now' - last_track_time' <= 1
         ELSE /\ \A i \in Eyes :
                    /\ eye_positions'[i].x
                         = Lerp(eye_positions[i].x, saccade_target_x')
                    /\ eye_positions'[i].y
                         = Lerp(eye_positions[i].y, saccade_target_y')
              /\ last_track_time' = last_track_time]_vars

\* C19 witness: after a tracked Target was lost, ticks with the invalid
\* Target have run and drawn a saccade goal, while the Target still holds
\* the coordinates it had when valid, off the saccade goal and off the eye.
C19_Witness ==
    /\ ~current_target.is_valid
    /\ last_track_time > 0
    /\ last_saccade_time > last_track_time
    /\ current_target.x # saccade_target_x
    /\ current_target.y # saccade_target_y
    /\ eye_positions[0].x # Lerp(eye_positions[0].x, current_target.x)

\* C20: in every reachable state the smoothed position of each eye lies in
\* [-1, 1] on both axes, and the pixel offset draw_eye_at_target derives
\* from it lies in [-MAX_2D_OFFSET_PIXELS, MAX_2D_OFFSET_PIXELS].  The
\* positions start at (0, 0) and every goal, a Target coordinate or an idle
\* saccade coordinate random(-100, 101) / 100, lies in [-1, 1] (the goals do
\* not depend on the state: they are looked at before the first tick).
C20_GazeWithinUnitSquare ==
    /\ \A i \in Eyes :
          /\ -FScale <= eye_positions[i].x /\ eye_positions[i].x <= FScale
          /\ -FScale <= eye_positions[i].y /\ eye_positions[i].y <= FScale
          /\ Abs(PixelOffset(eye_positions[i].x)) <= MAX_2D_OFFSET_PIXELS
          /\ Abs(PixelOffset(eye_positions[i].y)) <= MAX_2D_OFFSET_PIXELS
    /\ now = 0 =>
          /\ \A r \in RANDOM_LO .. RANDOM_HI : Abs(SaccadeCoord(r)) <= FScale
          /\ \A pixel \in 0 .. (GRID - 1) : Abs(NormCoord(pixel)) <= FScale
          /\ \A i \in Eyes : eye_positions[i] = [x |-> 0, y |-> 0]

\* C20 witness: tracking a Target in the corner of row 0, column 0, both
\* eyes have come to within two rounding units of (-1, -1).
C20_Witness ==
    /\ current_target.is_valid
    /\ current_target.x = -FScale
    /\ current_target.y = -FScale
    /\ \A i \in Eyes :
          /\ eye_positions[i].x <= 2 - FScale
          /\ eye_positions[i].y <= 2 - FScale

\* C21: after any sequence of update_eye_positions calls the position
\* get_eye_position returns for the left eye is the one it returns for the
\* right eye, on both axes.
C21_EyesShareGaze ==
    /\ get_eye_position(EYE_LEFT).x = get_eye_position(EYE_RIGHT).x
    /\ get_eye_position(EYE_LEFT).y = get_eye_position(EYE_RIGHT).y

\* C21 witness: several ticks have moved the eyes off the centre, by
\* different amounts on the two axes.
C21_Witness ==
    /\ now > 2 * LerpPollUntil
    /\ get_eye_position(EYE_LEFT).x # 0
    /\ get_eye_position(EYE_LEFT).y # 0
    /\ get_eye_position(EYE_LEFT).x # get_eye_position(EYE_LEFT).y
    /\ get_eye_position(EYE_LEFT) = get_eye_position(EYE_RIGHT)

\* A tick with an invalid Target that ends within the grace period after
\* the last tick with a valid one.
GraceTick ==
    /\ IsTick
    /\ ~current_target'.is_valid
    /\ now' - last_track_time <= SACCADE_DELAY_AFTER_TRACK_MS

\* C25: on every invalid tick within the grace period no saccade goal is
\* drawn and the smoothing goal is the stored idle saccade goal, (0, 0)
\* until one has been drawn, not the last tracked point: each eye moves one
\* smoothing step toward the stored goal.
C25_GraceUsesStoredSaccadeGoal ==
    [][GraceTick =>
         /\ SaccadeGoal' = SaccadeGoal
         /\ last_saccade_time = 0 =>
               saccade_target_x = 0 /\ saccade_target_y = 0
         /\ eye_positions' =
               LerpEyes(eye_positions, saccade_target_x, saccade_target_y)]_vars

\* C25 witness: a track at a point off the centre was lost, ticks of the
\* grace period have run, no saccade goal was ever drawn, and the eye is
\* neither at the last tracked point nor where the last valid tick left it.
C25_Witness ==
    /\ ~current_target.is_valid
    /\ last_track_time > 0
    /\ now - last_track_time > 1
    /\ now - last_track_time <= SACCADE_DELAY_AFTER_TRACK_MS
    /\ last_saccade_time = 0
    /\ last_known_target_x # 0
    /\ eye_positions[0].x # last_known_target_x
    /\ Abs(eye_positions[0].x) < Abs(Lerp(0, last_known_target_x))

\* The time from which the idle gate lets a goal be drawn, if the Target
\* stays invalid.
DrawDeadline ==
    Max2(now, Max2(last_track_time + SACCADE_DELAY_AFTER_TRACK_MS,
                   last_saccade_time + SACCADE_INTERVAL_MS))

\* The last tick drew a saccade goal.
FreshGoal == last_saccade_time > 0 /\ now = last_saccade_time

\* The shortest time between two ticks.
MinStep == CHOOSE d \in TimingSteps : \A e \in TimingSteps : d <= e

\* C26: with the Target invalid and ticks going on, a saccade goal is drawn
\* again and again: from every state without a Target, whose draw time
\* leaves room for one more tick below the time bound, a tick that draws a
\* goal follows unless a Target appears.  A goal is drawn on a tick exactly
\* when the Target is invalid, more than SACCADE_DELAY_AFTER_TRACK_MS have
\* passed since the last valid tick and more than SACCADE_INTERVAL_MS since
\* the last draw, so consecutive draws are more than SACCADE_INTERVAL_MS
\* apart.
C26_IdleMotionLive ==
    /\ [][IsTick =>
            /\ (/\ ~current_target.is_valid
                /\ now' - 1 - last_track_time > SACCADE_DELAY_AFTER_TRACK_MS
                /\ now' - 1 - last_saccade_time > SACCADE_INTERVAL_MS)
                  => last_saccade_time' >= now' - 1
            /\ last_saccade_time' # last_saccade_time =>
                  /\ ~current_target.is_valid
                  /\ now' - last_track_time > SACCADE_DELAY_AFTER_TRACK_MS
                  /\ last_saccade_time' - last_saccade_time
                        > SACCADE_INTERVAL_MS]_vars
    /\ (~current_target.is_valid /\ DrawDeadline + MinStep + 2 < MaxTime)
          ~> (current_target.is_valid \/ FreshGoal)

\* C26 witness: no Target was ever tracked and a goal has just been drawn
\* for the second time.
C26_Witness ==
    /\ last_track_time = 0
    /\ ~current_target.is_valid
    /\ FreshGoal
    /\ last_saccade_time > 2 * SACCADE_DELAY_AFTER_TRACK_MS

\* A tick that follows a poll on which the sensor was not ready or the
\* read failed, with a valid Target held.
HeldTick ==
    /\ IsTick
    /\ sensor_event \in {"not_ready", "read_failed"}
    /\ current_target.is_valid

\* C27: a valid Target is still held after a poll that delivered no frame,
\* and on every tick that follows such a poll it is the smoothing goal and
\* refreshes the last-valid-track time; no saccade goal is drawn on such a
\* tick, however long ago the last frame was processed.
C27_HeldTargetKeepsTracking ==
    [][/\ (/\ sensor_event' \in {"not_ready", "read_failed"}
           /\ current_target.is_valid) => current_target' = current_target
       /\ HeldTick =>
             /\ eye_positions' =
                   LerpEyes(eye_positions, current_target.x, current_target.y)
             /\ last_track_time' > now
             /\ now' - last_track_time' <= 1
             /\ SaccadeGoal' = SaccadeGoal]_vars

\* C27 witness: the sensor is not ready, the Target is still valid and
\* tracked by the last tick, later than the grace period and the saccade
\* interval together would have lasted, and no saccade goal was ever drawn.
C27_Witness ==
    /\ sensor_event = "not_ready"
    /\ current_target.is_valid
    /\ now > SACCADE_DELAY_AFTER_TRACK_MS + SACCADE_INTERVAL_MS
    /\ now - last_track_time <= 1
    /\ last_saccade_time = 0
    /\ eye_positions[0].x # 0

-----------------------------------------------------------------------------
(* Properties of the compositor                                            *)

\* A step in which draw_eye_image ran (a draw that repeats the last one on
\* the same buffer changes nothing and is a stuttering step).
IsDraw == last_draw' # last_draw /\ last_draw'.call = "draw_eye_image"

OffsetInRange(pos) ==
    /\ pos - RESTING_2D_OFFSET_PIXELS >= -MAX_2D_OFFSET_PIXELS
    /\ pos - RESTING_2D_OFFSET_PIXELS <= MAX_2D_OFFSET_PIXELS

\* C7: after draw_eye_image with both gaze offsets within
\* [-MAX_2D_OFFSET_PIXELS, +MAX_2D_OFFSET_PIXELS] of the resting offset,
\* every pixel the column loop writes has 0 <= dest_y < SCR_HT and
\* 0 <= dest_x < SCR_WD, so its index lies inside the 240 x 240 buffer.
C7_WritesInsideBuffer ==
    (/\ last_draw.call = "draw_eye_image"
     /\ OffsetInRange(last_draw.x_pos)
     /\ OffsetInRange(last_draw.y_pos))
    => \A r \in last_draw.rows :
          \A dest_x \in {r.x_start_draw, r.x_end_draw - 1} :
             r.x_start_draw < r.x_end_draw =>
                /\ 0 <= r.dest_y /\ r.dest_y < SCR_HT
                /\ 0 <= dest_x /\ dest_x < SCR_WD
                /\ 0 <= r.dest_y * SCR_WD + dest_x
                /\ r.dest_y * SCR_WD + dest_x < SCR_WD * SCR_HT

\* C7 witness: a draw at the extreme offset whose rows reach the last
\* screen row and, on one row, both the first and the last column.
C7_Witness ==
    /\ last_draw.call = "draw_eye_image"
    /\ last_draw.x_pos = RESTING_2D_OFFSET_PIXELS - MAX_2D_OFFSET_PIXELS
    /\ last_draw.y_pos = RESTING_2D_OFFSET_PIXELS - MAX_2D_OFFSET_PIXELS
    /\ \E r \in last_draw.rows : r.dest_y = SCR_HT - 1
    /\ \E r \in last_draw.rows :
          r.x_start_draw = 0 /\ r.x_end_draw = SCR_WD

\* C8: draw_eye_image leaves every pixel (dest_x, dest_y) of its draw range
\* at its previous value when texture pixel (dest_x - x_pos, dest_y - y_pos)
\* is TRANSPARENT_COLOR_KEY, and otherwise at that texture pixel with its
\* high and low byte exchanged.
C8_TransparencyRoundTrip ==
    [][IsDraw =>
         \A r \in last_draw'.rows :
            r.dest_y \in ProbeRows =>
               \A dest_x \in r.x_start_draw..(r.x_end_draw - 1) :
                  LET idx == r.dest_y * SCR_WD + dest_x
                      texel == EyeTexel(last_draw'.pattern,
                                        dest_x - last_draw'.x_pos,
                                        r.dest_y - last_draw'.y_pos)
                      after == framebuffers'[last_draw'.screen][idx]
                      before == framebuffers[last_draw'.screen][idx]
                  IN  IF texel = TRANSPARENT_COLOR_KEY
                      THEN after = before
                      ELSE /\ after \div 256 = texel % 256
                           /\ after % 256 = texel \div 256]_vars

\* C8 witness: a draw whose range holds, on a followed row, a transparent
\* texel and an opaque one whose byte swap sits in the framebuffer.
C8_Witness ==
    /\ last_draw.call = "draw_eye_image"
    /\ \E r \in last_draw.rows :
          /\ r.dest_y \in ProbeRows
          /\ \E dest_x \in r.x_start_draw..(r.x_end_draw - 1) :
                EyeTexel(last_draw.pattern, dest_x - last_draw.x_pos,
                         r.dest_y - last_draw.y_pos) = TRANSPARENT_COLOR_KEY
          /\ \E dest_x \in r.x_start_draw..(r.x_end_draw - 1) :
                LET texel == EyeTexel(last_draw.pattern,
                                      dest_x - last_draw.x_pos,
                                      r.dest_y - last_draw.y_pos)
                IN  /\ texel # TRANSPARENT_COLOR_KEY
                    /\ texel \div 256 # texel % 256
                    /\ framebuffers[last_draw.screen][r.dest_y * SCR_WD + dest_x]
                          = (texel % 256) * 256 + (texel \div 256)

\* Texture rows outside the exclusion band of eyelid level L:
\* c <= y < H - c with c = floor(L / 128 * H / 2).
OutsideBand(L) ==
    {y \in 0..(EYE_IMAGE_HEIGHT - 1) :
        /\ (L * EYE_IMAGE_HEIGHT) \div 256 <= y
        /\ y < EYE_IMAGE_HEIGHT - ((L * EYE_IMAGE_HEIGHT) \div 256)}

\* Texture rows that land on a screen row the circular mask shows.
OnScreen(y_pos) ==
    {y \in 0..(EYE_IMAGE_HEIGHT - 1) :
        /\ 0 <= y_pos + y /\ y_pos + y < SCR_HT
        /\ circular_scanlines[y_pos + y].x_start # -1}

\* C9: for an eyelid level L in 0..128 draw_eye_image draws exactly the
\* (on-screen) texture rows outside the band, c <= y < H - c with
\* c = floor(L/128 * H/2); L = 0 excludes no row, no higher level draws a
\* row this level skips, and L = 128 writes nothing.
C9_EyelidBand ==
    [][(IsDraw /\ last_draw'.pattern # "null"
          /\ last_draw'.eyelid_level <= EYELID_CLOSED) =>
         LET L == last_draw'.eyelid_level
             drawn == {r.y : r \in last_draw'.rows}
         IN  /\ drawn = OutsideBand(L) \cap OnScreen(last_draw'.y_pos)
             /\ L = 0 => OutsideBand(L) = 0..(EYE_IMAGE_HEIGHT - 1)
             /\ \A L2 \in {l \in EyelidLevels : L <= l /\ l <= EYELID_CLOSED} :
                   {r.y : r \in DrawRows(last_draw'.x_pos, last_draw'.y_pos,
                                         L2, circular_scanlines)}
                      \subseteq drawn
             /\ L = EYELID_CLOSED =>
                   /\ drawn = {}
                   /\ framebuffers' = framebuffers]_vars

\* C9 witness: a draw with the eyelid half closed that draws some rows and
\* skips an on-screen row inside the band.
C9_Witness ==
    /\ last_draw.call = "draw_eye_image"
    /\ last_draw.pattern # "null"
    /\ last_draw.eyelid_level = 64
    /\ last_draw.rows # {}
    /\ OnScreen(last_draw.y_pos) \ {r.y : r \in last_draw.rows} # {}

\* C23: a draw_eye_image / draw_eye_at_target call changes pixels of the
\* framebuffer of the selected display only: the other framebuffer, the
\* selection, the texture buffers, the scanline table, the gaze positions
\* and the held Target stay as they are; and no operation of the loop
\* (select_screen, clear_buffer, the draw) writes the scanline table or a
\* texture buffer.
C23_DrawWritesSelectedBufferOnly ==
    [][/\ UNCHANGED <<circular_scanlines, eye_texture>>
       /\ IsDraw =>
             /\ \A i \in Eyes :
                   i # active_screen_index => framebuffers'[i] = framebuffers[i]
             /\ DOMAIN framebuffers'[active_screen_index]
                   = DOMAIN framebuffers[active_screen_index]
             /\ UNCHANGED <<active_screen_index, eye_positions,
                            current_target, measurementData>>]_vars

\* C23 witness: a draw on the right display has changed its framebuffer
\* while the left one still holds what the allocation left in it.
C23_Witness ==
    /\ last_draw.call = "draw_eye_image"
    /\ last_draw.screen = EYE_RIGHT
    /\ last_draw.rows # {}
    /\ framebuffers[EYE_RIGHT] # UninitializedBuffer("ramp")
    /\ framebuffers[EYE_LEFT] = UninitializedBuffer("ramp")

-----------------------------------------------------------------------------
(* Properties of start-up and of the drawing interface                     *)

\* C11: a failed texture load halts start-up: the loop is never entered
\* with an image buffer missing.
C11_TextureLoadFailureHalts ==
    pc = "loop" => \A t \in EyeImageTypes : eye_texture[t] # "null"

\* C12: a framebuffer allocation that returns null halts init_tft with a
\* diagnostic: every later step runs with both pointers set, and the halted
\* firmware has computed no scanline, drawn nothing and presented nothing.
C12_NullFramebufferHalts ==
    /\ pc \in {"setup_screens", "loop"} =>
          \A i \in Eyes : ~IsNull(framebuffers[i])
    /\ (pc = "halted" /\ <<"FATAL: LittleFS mount failed">> \notin serial_log) =>
          /\ \E i \in Eyes :
                /\ IsNull(framebuffers[i])
                /\ <<"FATAL: Failed to allocate framebuffer", i>> \in serial_log
          /\ circular_scanlines = UnsetScanlines
          /\ last_draw = NoDraw
          /\ \A d \in Eyes : panels[d] = NoImage

\* C12 witness: the second allocation failed after the first succeeded.
C12_Witness ==
    /\ pc = "halted"
    /\ ~IsNull(framebuffers[0])
    /\ IsNull(framebuffers[1])

\* Indices just outside 0..NUM_SCREEN-1.
OutOfRangeScreens == {-1, NUM_SCREEN}

\* C13: an index outside 0..NUM_SCREEN-1 makes select_screen and
\* display_buffer change neither the active screen nor a CS pin nor a
\* display and makes get_eye_position return (0,0); an image type outside
\* 0..NUM_EYE_IMAGE_TYPES-1 makes draw_eye_image draw nothing.
C13_OutOfRangeInputsAbsorbed ==
    [][/\ \A ind \in OutOfRangeScreens :
             /\ ChipSelectAfter(ind, chip_select) = chip_select
             /\ get_eye_position(ind) = [x |-> 0, y |-> 0]
             /\ (select_screen(ind) \/ display_buffer(ind)) =>
                   UNCHANGED <<active_screen_index, chip_select, panels>>
       /\ (/\ last_draw'.call = "draw_eye_image"
           /\ last_draw'.image_type \notin EyeImageTypes) =>
             /\ last_draw'.pattern = "null"
             /\ last_draw'.rows = {}]_vars

-----------------------------------------------------------------------------
(* Properties of the loop                                                  *)

\* A loop iteration whose poll found the sensor not ready or failed to read
\* it, after an iteration that drew both eyes.
StaleTick ==
    /\ IsTick
    /\ last_draw.call = "draw_eye_image"
    /\ sensor_event' \in {"not_ready", "read_failed"}

\* C15: on a loop iteration with no new sensor data the detection is skipped
\* (the Target stays as it was) and each eye is drawn at the position it was
\* drawn at on the previous iteration.
C15_StaleTickDrawsPriorPositions ==
    [][StaleTick =>
         /\ current_target' = current_target
         /\ \A i \in Eyes :
               DrawOffsets(get_eye_position(i)')
                   = DrawOffsets(get_eye_position(i))]_vars

\* The pixels of the followed row 64, which the debug grid does not reach.
OrderProbe == { 64 * SCR_WD + dest_x : dest_x \in 0 .. (SCR_WD - 1) }

\* The pixel of index idx of a cleared buffer after the eye was drawn at
\* the position pos with the image of the Target `target`.
EyePixelAt(idx, pos, target) ==
    LET pattern == eye_texture[get_current_eye_image_type(target)]
        cleared == swap_color_bytes(TFT_BLACK)
    IN  IF pattern = "null" THEN cleared
        ELSE PixelAfterDraw(cleared, idx, DrawOffsets(pos).x_pos,
                            DrawOffsets(pos).y_pos, EyelidCutoff(EyelidOpen),
                            circular_scanlines, pattern)

\* C24: within every loop iteration the sensor update comes first, then the
\* gaze update, then the draws, then the presentation: the gaze update uses
\* the Target the iteration's sensor update left, both displays are drawn
\* at the positions that one gaze update produced, and each display is
\* presented the framebuffer as cleared and drawn in this iteration.
C24_TickOrder ==
    [][IsTick =>
         /\ eye_positions' =
               IF current_target'.is_valid
               THEN LerpEyes(eye_positions, current_target'.x,
                             current_target'.y)
               ELSE LerpEyes(eye_positions, saccade_target_x',
                             saccade_target_y')
         /\ \A i \in Eyes :
               /\ \A idx \in OrderProbe :
                     framebuffers'[i][idx]
                        = EyePixelAt(idx, eye_positions'[i], current_target')
               /\ panels'[i] = [src |-> "framebuffer", index |-> i,
                                image |-> framebuffers'[i]]]_vars

\* C24 witness: an iteration has drawn and presented both eyes off the
\* resting offset, at a position the gaze update reached in two steps.
C24_Witness ==
    /\ last_draw.call = "draw_eye_image"
    /\ last_draw.x_pos # RESTING_2D_OFFSET_PIXELS
    /\ DrawOffsets(eye_positions[EYE_LEFT]).x_pos = last_draw.x_pos
    /\ eye_positions[EYE_LEFT].x # Lerp(0, current_target.x)
    /\ \A i \in Eyes : panels[i].image = framebuffers[i]

-----------------------------------------------------------------------------
(* Properties of the scanline table and of the texture reads               *)

\* The radius and the centre of the display's disc.
DiscRadius == SCR_WD \div 2

\* C22: once precalculate_scanlines has run, row y of the table holds the
\* sentinel (-1, -1) iff (y - 120)^2 >= 120^2; otherwise x_start = 120 - e
\* and x_end = 120 + e with e the integer square root of
\* 120^2 - (y - 120)^2, so that 0 <= x_start <= x_end <= SCR_WD and x_start
\* is not the sentinel value.
C22_ScanlineTableContents ==
    circular_scanlines # UnsetScanlines =>
        \A y \in 0 .. (SCR_HT - 1) :
            LET row == circular_scanlines[y]
                rest == DiscRadius * DiscRadius
                          - (y - DiscRadius) * (y - DiscRadius)
                e == row.x_end - DiscRadius
            IN  IF rest <= 0
                THEN row = [x_start |-> -1, x_end |-> -1]
                ELSE /\ row.x_start = DiscRadius - e
                     /\ e >= 0
                     /\ e * e <= rest
                     /\ rest < (e + 1) * (e + 1)
                     /\ 0 <= row.x_start
                     /\ row.x_start <= row.x_end
                     /\ row.x_end <= SCR_WD
                     /\ row.x_start # -1

\* C22 witness: the loop runs with the table computed: row 0 holds the
\* sentinel, row 1 a short range, the middle row the whole width 0..240 and
\* the last row the range of row 1.
C22_Witness ==
    /\ pc = "loop"
    /\ circular_scanlines[0] = [x_start |-> -1, x_end |-> -1]
    /\ circular_scanlines[1].x_start > 0
    /\ circular_scanlines[1].x_end < SCR_WD
    /\ circular_scanlines[DiscRadius] = [x_start |-> 0, x_end |-> SCR_WD]
    /\ circular_scanlines[SCR_HT - 1] = circular_scanlines[1]


\* C28: for every image position whose 16-bit sums do not overflow and
\* every eyelid level, each texel draw_eye_image reads lies inside the
\* texture, 0 <= src_y < EYE_IMAGE_HEIGHT and 0 <= src_x < EYE_IMAGE_WIDTH,
\* and the accumulators give src_y = dest_y - y_pos and
\* src_x = dest_x - x_pos.  (Every column of the followed rows, the first
\* and the last column of every other row.)
C28_TextureReadsInside ==
    last_draw.call = "draw_eye_image" =>
        \A r \in last_draw.rows :
            /\ r.src_y = r.dest_y - last_draw.y_pos
            /\ 0 <= r.src_y /\ r.src_y < EYE_IMAGE_HEIGHT
            /\ \A dest_x \in
                    IF r.dest_y \in ProbeRows
                    THEN r.x_start_draw .. (r.x_end_draw - 1)
                    ELSE {r.x_start_draw, r.x_end_draw - 1} :
                  r.x_start_draw < r.x_end_draw =>
                     LET src_x == SourceX(last_draw.x_pos, r.x_start_draw,
                                          dest_x)
                     IN  /\ src_x = dest_x - last_draw.x_pos
                         /\ 0 <= src_x /\ src_x < EYE_IMAGE_WIDTH

\* C28 witness: a draw whose image starts inside the screen, so that a row
\* is read from its first texel on, and one whose image ends inside the
\* screen, so that a row is read up to its last texel and the last texture
\* row is read.
C28_Witness ==
    /\ last_draw.call = "draw_eye_image"
    /\ last_draw.x_pos = -110 + 349 \/ last_draw.x_pos = -349
    /\ \E r \in last_draw.rows :
          /\ r.x_start_draw < r.x_end_draw
          /\ \/ SourceX(last_draw.x_pos, r.x_start_draw, r.x_start_draw) = 0
             \/ /\ SourceX(last_draw.x_pos, r.x_start_draw, r.x_end_draw - 1)
                      = EYE_IMAGE_WIDTH - 1
                /\ \E q \in last_draw.rows : q.src_y = EYE_IMAGE_HEIGHT - 1


\* The image position draw_eye_at_target passes on for a gaze coordinate.
ImagePosition(target) == ToInt16(RESTING_2D_OFFSET_PIXELS + PixelOffset(target))

\* C29: for a gaze position in [-1, 1] x [-1, 1] the texture rectangle
\* [x_pos, x_pos + 350) x [y_pos, y_pos + 350) contains the whole 240 x 240
\* display; so after a draw with the eyelid open every row of the scanline
\* table that has a range is drawn over exactly that range, and a pixel of
\* the disc that is at the clear colour has a transparent texel.
C29_TextureCoversDisc ==
    (/\ last_draw.call = "draw_eye_image"
     /\ last_draw.eyelid_level = 0
     /\ last_draw.pattern # "null")
    => /\ \A target \in (-FScale) .. FScale :
             /\ ImagePosition(target) <= 0
             /\ ImagePosition(target) + EYE_IMAGE_WIDTH >= SCR_WD
             /\ ImagePosition(target) + EYE_IMAGE_HEIGHT >= SCR_HT
       /\ last_draw.x_pos <= 0 /\ last_draw.x_pos + EYE_IMAGE_WIDTH >= SCR_WD
       /\ last_draw.y_pos <= 0 /\ last_draw.y_pos + EYE_IMAGE_HEIGHT >= SCR_HT
       /\ \A dest_y \in 0 .. (SCR_HT - 1) :
             circular_scanlines[dest_y].x_start # -1 =>
                \E r \in last_draw.rows :
                   /\ r.dest_y = dest_y
                   /\ r.x_start_draw = circular_scanlines[dest_y].x_start
                   /\ r.x_end_draw = circular_scanlines[dest_y].x_end
       /\ \A dest_y \in ProbeRows :
             \A dest_x \in circular_scanlines[dest_y].x_start
                              .. (circular_scanlines[dest_y].x_end - 1) :
                (/\ circular_scanlines[dest_y].x_start # -1
                 /\ framebuffers[last_draw.screen][dest_y * SCR_WD + dest_x]
                       = swap_color_bytes(TFT_BLACK))
                => EyeTexel(last_draw.pattern, dest_x - last_draw.x_pos,
                            dest_y - last_draw.y_pos)
                      = TRANSPARENT_COLOR_KEY

\* C29 witness: an open-eyed draw of the iris image at an end of the gaze
\* range, the rectangle's edge on the display's edge, which left a pixel of
\* the disc at the clear colour and wrote another.
C29_Witness ==
    /\ last_draw.call = "draw_eye_image"
    /\ last_draw.eyelid_level = 0
    /\ last_draw.pattern = "iris"
    /\ last_draw.x_pos = 0
    /\ last_draw.y_pos + EYE_IMAGE_HEIGHT = SCR_HT
    /\ \E dest_x \in circular_scanlines[DiscRadius].x_start
                        .. (circular_scanlines[DiscRadius].x_end - 1) :
          framebuffers[last_draw.screen][DiscRadius * SCR_WD + dest_x]
             = swap_color_bytes(TFT_BLACK)
    /\ \E dest_x \in circular_scanlines[DiscRadius].x_start
                        .. (circular_scanlines[DiscRadius].x_end - 1) :
          framebuffers[last_draw.screen][DiscRadius * SCR_WD + dest_x]
             = swap_color_bytes(EyeTexel("iris", dest_x - last_draw.x_pos,
                                         DiscRadius - last_draw.y_pos))
          /\ EyeTexel("iris", dest_x - last_draw.x_pos,
                      DiscRadius - last_draw.y_pos) # TRANSPARENT_COLOR_KEY


-----------------------------------------------------------------------------
(* Properties of the display selection                                     *)

\* Display ind alone is selected.
OnlySelected(pins, ind) ==
    \A d \in Eyes : pins[d] = IF d = ind THEN "LOW" ELSE "HIGH"

\* C30: once init_tft has returned, a select_screen(i) with a valid i leaves
\* exactly the chip-select line of display i LOW and active_screen_index = i,
\* which stays within 0..NUM_SCREEN-1; display_buffer(i) transfers
\* framebuffers[i] to display i alone, with that display alone selected, so
\* no display ever shows the other's framebuffer; and between two calls
\* both lines are never LOW together.
C30_ExclusiveSelection ==
    [][/\ active_screen_index' \in 0 .. (NUM_SCREEN - 1)
       /\ ~(\A d \in Eyes : chip_select'[d] = "LOW")
       /\ pc' = "loop" => OnlySelected(chip_select', active_screen_index')
       /\ \A ind \in 0 .. (NUM_SCREEN - 1) :
             (pc = "loop" /\ select_screen(ind))
             => /\ active_screen_index' = ind
                /\ OnlySelected(chip_select', ind)
       /\ (pc = "loop" /\ panels' # panels)
          => \E ind \in 0 .. (NUM_SCREEN - 1) :
                /\ OnlySelected(chip_select', ind)
                /\ panels' = [panels EXCEPT ![ind] =
                                 [src |-> "framebuffer", index |-> ind,
                                  image |-> framebuffers[ind]]]
       /\ \A d \in Eyes :
             panels'[d].src = "framebuffer" => panels'[d].index = d]_vars

\* C30 witness: in the loop the left display is selected alone, after the
\* right one had been, and shows its own framebuffer, an image the right
\* display does not show.
C30_Witness ==
    /\ pc = "loop"
    /\ active_screen_index = EYE_LEFT
    /\ OnlySelected(chip_select, EYE_LEFT)
    /\ last_draw.call = "draw_eye_image"
    /\ panels[EYE_LEFT] = [src |-> "framebuffer", index |-> EYE_LEFT,
                           image |-> framebuffers[EYE_LEFT]]
    /\ panels[EYE_RIGHT].src = "framebuffer"
    /\ panels[EYE_RIGHT].image # panels[EYE_LEFT].image


=============================================================================
